---------------------------- MODULE Spec2Model ----------------------------
(***************************************************************************)
(* dwmstatus: a status line generator for dwm.  The model follows the      *)
(* second program of src/dwmstatus.cpp (lines 488-1282: Cpuinfo, Meminfo,  *)
(* Net, Temp, Wifi, Battery, Datetime composed by main), called v2 below;  *)
(* the first program of that file (lines 1-486) is v1.                     *)
(*                                                                         *)
(* Text is a sequence of byte values (0..255).  Numbers the program holds  *)
(* as double are held here as exact rationals (numerator, denominator);    *)
(* the places where the double is not finite are modelled explicitly.      *)
(* A conversion of a non-finite or out-of-range double to int is undefined *)
(* behaviour: the value is chosen from UBInt by the action that runs it.   *)
(***************************************************************************)
EXTENDS Integers, Sequences, FiniteSets, TLC

VARIABLES
  pc,        \* position of main's loop
  tick,      \* number of loop iterations started
  env,       \* what the operating system shows to the samplers this tick
  ss,        \* bytes written to the stringstream of the tick
  out,       \* the operator<< calls made on ss, in order: what was passed
  title,     \* root window name as stored by XStoreName
  synced,    \* TRUE when the stored name has been flushed by XSync
  cpuStatic, \* Cpuinfo's static members: nelts and the *_last arrays
  cpu,       \* the tick's Cpuinfo object and the percentages it rendered
  n,         \* the Net object of main
  netText,   \* the text the Net object rendered this tick
  b,         \* the tick's Battery object
  w,         \* the tick's Wifi object
  mem,       \* Meminfo objects under test and their colours
  temp,      \* the tick's Temp object
  load,      \* Load object under test and its colour
  hist       \* per finished tick: what was present and what was written

vars == <<pc, tick, env, ss, out, title, synced, cpuStatic, cpu, n, netText,
          b, w, mem, temp, load, hist>>

-----------------------------------------------------------------------------
(* enum Color *)
NORMAL == 1
SELECTED == 2
RED == 3
ORANGE == 4
YELLOW == 5
BLUE == 6
CYAN == 7
GREEN == 8

Colors == NORMAL..GREEN

(* Outcomes of a double-to-int conversion whose operand is NaN, infinite   *)
(* or out of int's range: INT_MIN (x86 cvttsd2si), 0 and INT_MAX (other    *)
(* targets, constant folding).                                             *)
UBInt == {-2147483647 - 1, 0, 2147483647}

-----------------------------------------------------------------------------
(* Text helpers: what operator<< of a stringstream writes.                 *)

Max(a, c) == IF a >= c THEN a ELSE c
Min(a, c) == IF a <= c THEN a ELSE c

(* C++ integer division, and int(double) of a finite quotient, truncate    *)
(* toward zero; \div floors.                                               *)
TruncDivPos(a, d) == IF a >= 0 \/ a % d = 0 THEN a \div d ELSE (a \div d) + 1

TruncDiv(a, d) == IF d > 0 THEN TruncDivPos(a, d) ELSE -TruncDivPos(a, -d)

RECURSIVE DecNat(_)
DecNat(k) == IF k < 10 THEN <<48 + k>> ELSE DecNat(k \div 10) \o <<48 + (k % 10)>>

(* ss << int: decimal digits, '-' first for a negative value.  The digits  *)
(* of a negative value are taken without negating it (INT_MIN has no       *)
(* positive counterpart).                                                  *)
RECURSIVE DecNeg(_)
DecNeg(k) ==
  LET q == IF k % 10 = 0 THEN k \div 10 ELSE (k \div 10) + 1
      r == (q * 10) - k
  IN IF q = 0 THEN <<48 + r>> ELSE DecNeg(q) \o <<48 + r>>

Dec(k) == IF k >= 0 THEN DecNat(k) ELSE <<45>> \o DecNeg(k)

(* ss << setw(2) << setfill('0') << int: one digit is padded to two *)
Dec2(k) == IF 0 <= k /\ k < 10 THEN <<48>> \o DecNat(k) ELSE Dec(k)

RECURSIVE Flatten(_)
Flatten(seqs) == IF seqs = <<>> THEN <<>> ELSE Head(seqs) \o Flatten(Tail(seqs))

-----------------------------------------------------------------------------
(* class Metric (v2): ColorScope and operator<< *)

ColorScopeOpen(c) == IF c # NORMAL THEN <<c>> ELSE <<>>

ColorScopeClose(c) == IF c # NORMAL THEN <<1>> ELSE <<>>

EmitAlways(c, text) == <<c>> \o text \o <<1>>

(* friend stream &operator<<(stream &s, const Metric &metric) *)
Emit(c, text) ==
  IF c # NORMAL
    THEN ColorScopeOpen(c) \o text \o ColorScopeClose(c)
    ELSE text

(* class Separator *)
SeparatorColor == NORMAL
SeparatorText == <<58, 58>>

-----------------------------------------------------------------------------
(* class Battery (v2).  Energies are sysfs readings (>= 0); the doubles    *)
(* 100.0*energy_now/energy_full and 60.0*e/power are exact rationals of    *)
(* these readings, and the comparisons below are those of the rationals.   *)

(* An int read from a stream that failed to open keeps its indeterminate   *)
(* value.                                                                  *)
UninitInt == UBInt \cup {1}

(* SingleBattery(batdir): sb is what sysfs shows for one BAT<i> directory *)
SingleBattery(sb) ==
  IF sb.dir /\ sb.p # 0
    THEN [energy_now |-> sb.energy_now, energy_full |-> sb.energy_full,
          power_now |-> sb.power_now, present |-> TRUE]
    ELSE [energy_now |-> 0, energy_full |-> 0, power_now |-> 0, present |-> FALSE]

(* std::accumulate over the present batteries *)
RECURSIVE Accumulate(_, _)
Accumulate(batteries, fld) ==
  IF batteries = <<>> THEN 0
  ELSE (IF Head(batteries).present THEN Head(batteries)[fld] ELSE 0)
       + Accumulate(Tail(batteries), fld)

BatteryPercentRound(energy_now, energy_full, ub) ==
  IF energy_full = 0
    THEN IF energy_now > 0 THEN 100 ELSE ub
    ELSE (200 * energy_now + energy_full) \div (2 * energy_full)

(* dpercent = 100.0 * energy_now / energy_full;                            *)
(* _percent = (100.0 - dpercent < 0.5) ? 100 : int(dpercent).              *)
(* energy_full = 0 makes dpercent +inf (energy_now > 0: 100 - inf < 0.5)   *)
(* or NaN (energy_now = 0: the comparison is false and int(NaN) is         *)
(* undefined).                                                             *)
BatteryPercent(energy_now, energy_full, ub) ==
  IF energy_full = 0
    THEN IF energy_now > 0 THEN 100 ELSE ub
    ELSE IF 200 * (energy_full - energy_now) < energy_full
           THEN 100
           ELSE TruncDiv(100 * energy_now, energy_full)

(* _direction *)
BatteryDirection(ac_present, percent) ==
  IF ac_present = 1
    THEN IF percent = 100 THEN 61 ELSE 43
    ELSE 45

(* int(60.0 * e / power): undefined for power = 0 (inf or NaN) *)
MinutesOf(e, power, ub) == IF power = 0 THEN ub ELSE TruncDiv(60 * e, power)

BatteryMinutesV1(ac_present, percent, energy_now, energy_full, power, ub) ==
  IF ac_present = 1
    THEN MinutesOf(energy_full - energy_now, power, ub)
    ELSE MinutesOf(energy_now, power, ub)

(* _minutes, with the final clamp of a negative value to 0 *)
BatteryMinutes(ac_present, percent, energy_now, energy_full, power, ub) ==
  LET m == IF ac_present = 1
             THEN IF percent = 100
                    THEN 0
                    ELSE MinutesOf(energy_full - energy_now, power, ub)
             ELSE MinutesOf(energy_now, power, ub)
  IN IF m < 0 THEN 0 ELSE m

(* Battery::Battery(): bat is <<BAT0, BAT1>> as sysfs shows them, ac is    *)
(* [ok |-> whether AC/online opens, v |-> the int it holds].               *)
BatteryCtor(bat, ac, ubAc, ubPercent, ubMinutes) ==
  LET all == [i \in 1..2 |-> SingleBattery(bat[i])]
      batteries == SelectSeq(all, LAMBDA sb : sb.present)
      power == Accumulate(batteries, "power_now")
      energy_full == Accumulate(batteries, "energy_full")
      energy_now == Accumulate(batteries, "energy_now")
      ac_present == IF ac.ok THEN ac.v ELSE ubAc
      percent == BatteryPercent(energy_now, energy_full, ubPercent)
  IN [percent |-> percent,
      minutes |-> BatteryMinutes(ac_present, percent, energy_now, energy_full,
                                 power, ubMinutes),
      present |-> batteries # <<>>,
      direction |-> BatteryDirection(ac_present, percent)]

(* Battery::color() *)
BatteryColor(bt) ==
  IF bt.percent < 10 THEN RED
  ELSE IF bt.percent < 20 THEN ORANGE
  ELSE IF bt.percent < 30 THEN YELLOW
  ELSE CYAN

(* " H:MM" *)
HourMin(minutes) ==
  <<32>> \o Dec(TruncDiv(minutes, 60)) \o <<58>> \o Dec2(minutes - 60 * TruncDiv(minutes, 60))

BatteryTextV1(bt) ==
  <<bt.direction>> \o Dec(bt.percent) \o <<37>> \o HourMin(bt.minutes)

(* Battery::operator std::string() *)
BatteryText(bt) ==
  <<bt.direction>> \o Dec(bt.percent) \o <<37>>
    \o (IF bt.percent # 100 \/ bt.direction = 45 THEN HourMin(bt.minutes) ELSE <<>>)

-----------------------------------------------------------------------------
(* class Load (v2).  /proc/loadavg prints two decimals: a load is held in  *)
(* hundredths (one = 120 is the double 1.20).  A comparison of such a      *)
(* double with an int is the comparison of the hundredths with 100 * int.  *)

(* Load::color(): 3*ncpu/2 is an int division *)
LoadColor(ld, ncpu) ==
  IF ld.one > 100 * (2 * ncpu) THEN RED
  ELSE IF ld.one > 100 * TruncDiv(3 * ncpu, 2) THEN ORANGE
  ELSE IF ld.one > 100 * ncpu THEN YELLOW
  ELSE BLUE

-----------------------------------------------------------------------------
(* class Meminfo (v2): total, mfree, buff, cach are size_t numbers of kB.  *)
(* size_t is 64 bits wide; the products below stay under 2^64 for every    *)
(* amount of memory /proc/meminfo can report, and are computed exactly.    *)

MeminfoColorUsed(m) ==
  LET used == m.total - m.buff - m.cach - m.mfree
  IN IF used * 10 > m.total * 9 THEN RED
     ELSE IF used * 5 > m.total * 4 THEN ORANGE
     ELSE IF used * 3 > m.total * 2 THEN YELLOW
     ELSE GREEN

(* Meminfo::color() *)
MeminfoColor(m) ==
  IF (m.mfree + m.cach) * 10 < m.total THEN RED
  ELSE IF (m.mfree + m.cach) * 5 < m.total THEN ORANGE
  ELSE IF (m.mfree + m.cach) * 3 < m.total THEN YELLOW
  ELSE GREEN

-----------------------------------------------------------------------------
(* class Bar: the 6-byte glyph.  A char holds the low 8 bits of the int.   *)

Byte(x) == x % 256

BarTextNoBias(x, y, wd, h, skip, filled, c) ==
  <<Byte(c + 128 + (IF filled THEN 64 ELSE 0)),
    Byte(x), Byte(y), Byte(wd), Byte(h), Byte(skip)>>

(* Bar::operator std::string(): c is a Color (1..8), so the bits 0x80 and  *)
(* 0x40 or-ed into buf[0] are added to it.  buf[k] = (char) v + 1 narrows  *)
(* v to a char, adds 1 and narrows the sum again.                          *)
BarText(x, y, wd, h, skip, filled, c) ==
  <<Byte(c + 128 + (IF filled THEN 64 ELSE 0)),
    Byte(Byte(x) + 1), Byte(Byte(y) + 1), Byte(Byte(wd) + 1), Byte(Byte(h) + 1),
    Byte(Byte(skip) + 1)>>

-----------------------------------------------------------------------------
(* class Cpuinfo.  A line of /proc/stat is the sequence of its jiffies     *)
(* numbers (user, nice, system, idle, iowait, ...); env.stat holds the     *)
(* aggregate "cpu" line first, then one line per core.  Arrays are indexed *)
(* from 0 as in the source.                                                *)

RECURSIVE SumTo(_, _)
SumTo(line, j) == IF j = 0 THEN 0 ELSE line[j] + SumTo(line, j - 1)

(* The inner loop of Cpuinfo::Cpuinfo() over one line: j counts from 0 *)
ParseStatLine(line) ==
  [user  |-> SumTo(line, Min(2, Len(line))),
   sys   |-> IF Len(line) >= 3 THEN line[3] ELSE 0,
   io    |-> IF Len(line) >= 5 THEN line[5] ELSE 0,
   total |-> SumTo(line, Len(line))]

ZeroArray(nelts) == [i \in 0..(nelts - 1) |-> 0]

(* The static members before the first Cpuinfo is constructed *)
CpuStaticInit ==
  [nelts |-> 0, total_last |-> <<>>, user_last |-> <<>>, sys_last |-> <<>>,
   io_last |-> <<>>]

(* if (!nelts) { ... }: the first construction sizes and zeroes the       *)
(* baseline                                                                *)
CpuStaticEnsure(st, ncpu) ==
  IF st.nelts = 0
    THEN [nelts |-> ncpu + 1, total_last |-> ZeroArray(ncpu + 1),
          user_last |-> ZeroArray(ncpu + 1), sys_last |-> ZeroArray(ncpu + 1),
          io_last |-> ZeroArray(ncpu + 1)]
    ELSE st

(* Cpuinfo::Cpuinfo(): the *_cur arrays read from /proc/stat *)
CpuinfoCtor(stat, nelts) ==
  [total_cur |-> [i \in 0..(nelts - 1) |-> ParseStatLine(stat[i + 1]).total],
   user_cur  |-> [i \in 0..(nelts - 1) |-> ParseStatLine(stat[i + 1]).user],
   sys_cur   |-> [i \in 0..(nelts - 1) |-> ParseStatLine(stat[i + 1]).sys],
   io_cur    |-> [i \in 0..(nelts - 1) |-> ParseStatLine(stat[i + 1]).io]]

(* A destructor that leaves the baseline as it was *)
CpuinfoDtorNone(st, c) == st

(* Cpuinfo::~Cpuinfo(): the current counters become the baseline *)
CpuinfoDtor(st, c) ==
  [st EXCEPT !.total_last = c.total_cur, !.user_last = c.user_cur,
             !.sys_last = c.sys_cur, !.io_last = c.io_cur]

(* int(100 * double(num) / double(den)): for den = 0 the double is NaN or  *)
(* infinite and the conversion to int is undefined.                        *)
PctOf(num, den, ub) == IF den = 0 THEN ub ELSE TruncDiv(100 * num, den)

(* Cpuinfo::pct, user, sys, io *)
CpuPct(c, st, i, ub) ==
  PctOf(c.user_cur[i] - st.user_last[i] + c.sys_cur[i] - st.sys_last[i],
        c.total_cur[i] - st.total_last[i], ub)
CpuUser(c, st, i, ub) ==
  PctOf(c.user_cur[i] - st.user_last[i], c.total_cur[i] - st.total_last[i], ub)
CpuSys(c, st, i, ub) ==
  PctOf(c.sys_cur[i] - st.sys_last[i], c.total_cur[i] - st.total_last[i], ub)
CpuIo(c, st, i, ub) ==
  PctOf(c.io_cur[i] - st.io_last[i], c.total_cur[i] - st.total_last[i], ub)

(* Cpuinfo::color_for(i), from p = pct(i) *)
CpuColorFor(p) ==
  IF p > 90 THEN RED
  ELSE IF p > 75 THEN ORANGE
  ELSE IF p > 50 THEN YELLOW
  ELSE IF p > 10 THEN GREEN
  ELSE BLUE

(* 40 * pct(i) / 100 in int: the product overflows for a pct outside       *)
(* +-53687091, which is undefined.                                         *)
CpuBarWidth(p, ubw) ==
  IF p > 53687091 \/ p < -53687091 THEN ubw ELSE TruncDiv(40 * p, 100)

RECURSIVE CpuBars(_, _, _, _, _, _)
CpuBars(c, st, i, nelts, ub, ubw) ==
  IF i >= nelts THEN <<>>
  ELSE Emit(NORMAL,
            BarText(0, 2 + (i - 1) * 3, CpuBarWidth(CpuPct(c, st, i, ub), ubw), 2,
                    IF i = nelts - 1 THEN 41 ELSE 0, TRUE,
                    CpuColorFor(CpuPct(c, st, i, ub))))
       \o CpuBars(c, st, i + 1, nelts, ub, ubw)

(* Cpuinfo::operator std::string() *)
CpuText(c, st, ub, ubw) ==
  ColorScopeOpen(CpuColorFor(CpuPct(c, st, 0, ub)))
    \o Dec(CpuUser(c, st, 0, ub)) \o <<37, 32>>
    \o Dec(CpuSys(c, st, 0, ub)) \o <<37, 32>>
    \o Dec(CpuIo(c, st, 0, ub)) \o <<37>>
    \o ColorScopeClose(CpuColorFor(CpuPct(c, st, 0, ub)))
    \o CpuBars(c, st, 1, st.nelts, ub, ubw)

(* What pct(i), user(i), sys(i) and io(i) return for every i *)
CpuShown(c, st, ub) ==
  [pct  |-> [i \in 0..(st.nelts - 1) |-> CpuPct(c, st, i, ub)],
   user |-> [i \in 0..(st.nelts - 1) |-> CpuUser(c, st, i, ub)],
   sys  |-> [i \in 0..(st.nelts - 1) |-> CpuSys(c, st, i, ub)],
   io   |-> [i \in 0..(st.nelts - 1) |-> CpuIo(c, st, i, ub)]]

-----------------------------------------------------------------------------
(* ss << std::fixed << std::setprecision(1) << double, for the rational    *)
(* num/den with num >= 0.  den = 0 is the non-finite double: "inf" for     *)
(* num > 0, and for 0/0 the NaN text of the platform (nan: "nan" or        *)
(* "-nan").  A finite value is rounded to one decimal, ties to even; with  *)
(* den < 0 the double is negative (-0.0 for num = 0) and has a sign.       *)
RECURSIVE Fixed1(_, _, _)
Fixed1(num, den, nan) ==
  IF den = 0
    THEN IF num > 0 THEN <<105, 110, 102>> ELSE nan
  ELSE IF den < 0
    THEN <<45>> \o Fixed1(num, -den, nan)
    ELSE LET q == (10 * num) \div den
             r == (10 * num) % den
             t == IF 2 * r > den \/ (2 * r = den /\ q % 2 = 1) THEN q + 1 ELSE q
         IN Dec(t \div 10) \o <<46>> \o Dec(t % 10)

NanTexts == {<<110, 97, 110>>, <<45, 110, 97, 110>>}

-----------------------------------------------------------------------------
(* class Net.  The clock is read in milliseconds and may be set back       *)
(* between two readings (system_clock); rx and tx are the byte counters of *)
(* the interface in /proc/net/dev.  The text is modelled for deltas of     *)
(* counters that do not decrease (a smaller counter wraps around in        *)
(* size_t).                                                                *)

(* const size_t N *)
NetN == 60

(* Net::Net(ifname): i(0), rx and tx filled with 0, t[] default time_points *)
NetCtor ==
  [rx |-> [k \in 0..(NetN - 1) |-> 0], tx |-> [k \in 0..(NetN - 1) |-> 0],
   t |-> [k \in 0..(NetN - 1) |-> 0], i |-> 0]

(* Net::next(): dev is [ok |-> whether /proc/net/dev has a line with the   *)
(* interface token, rx, tx |-> its byte counters, fits |-> whether each of *)
(* the seven numbers between them fits an int].  Without such a line the   *)
(* stream is at its end and the reads store nothing; a number that does    *)
(* not fit int ignore sets failbit, and the read of tx stores nothing.     *)
NetNext(nn, dev, now) ==
  IF dev.ok /\ dev.fits
    THEN [nn EXCEPT !.t[nn.i % NetN] = now, !.rx[nn.i % NetN] = dev.rx,
                    !.tx[nn.i % NetN] = dev.tx, !.i = nn.i + 1]
  ELSE IF dev.ok
    THEN [nn EXCEPT !.t[nn.i % NetN] = now, !.rx[nn.i % NetN] = dev.rx,
                    !.i = nn.i + 1]
    ELSE [nn EXCEPT !.t[nn.i % NetN] = now, !.i = nn.i + 1]

(* duration_cast<seconds>(t[cur] - t[prev]).count() *)
NetSecs(nn, cur, prev) == TruncDiv(nn.t[cur] - nn.t[prev], 1000)

(* The colour of the rate d/(1024*secs) KiB/s against four thresholds.  A  *)
(* rate with secs = 0 is +inf (d > 0: above every threshold) or NaN        *)
(* (d = 0: every comparison is false).                                     *)
RateAbove(d, secs, th) ==
  IF secs = 0 THEN d > 0
  ELSE IF secs > 0 THEN d > th * 1024 * secs
  ELSE d < th * 1024 * secs

RateColor(d, secs, t1, t2, t3, t4) ==
  IF RateAbove(d, secs, t1) THEN RED
  ELSE IF RateAbove(d, secs, t2) THEN ORANGE
  ELSE IF RateAbove(d, secs, t3) THEN YELLOW
  ELSE IF RateAbove(d, secs, t4) THEN GREEN
  ELSE BLUE

(* rate > (1<<10) ? rate / (1<<10) << "M" : rate << "k" *)
RateText(d, secs, nan) ==
  IF RateAbove(d, secs, 1024)
    THEN Fixed1(d, 1024 * 1024 * secs, nan) \o <<77>>
    ELSE Fixed1(d, 1024 * secs, nan) \o <<107>>

(* The current-rate part of Net::operator std::string() *)
NetRateText(nn, nan) ==
  LET cur == (nn.i - 1) % NetN
      prev == (nn.i - 2) % NetN
      secs == NetSecs(nn, cur, prev)
      drx == nn.rx[cur] - nn.rx[prev]
      dtx == nn.tx[cur] - nn.tx[prev]
      rc == RateColor(drx, secs, 4500, 2000, 1000, 100)
      tc == RateColor(dtx, secs, 1000, 500, 100, 50)
  IN ColorScopeOpen(rc) \o RateText(drx, secs, nan) \o ColorScopeClose(rc)
       \o ColorScopeOpen(tc) \o RateText(dtx, secs, nan) \o ColorScopeClose(tc)

(* d / double(secs) < c, for secs # 0 *)
RateBelow(d, secs, c) == IF secs > 0 THEN d < c * secs ELSE d > c * secs

(* rh: the rx bar height for d bytes in secs seconds (secs # 0) *)
NetRh(d, secs) ==
  Min(8, IF RateBelow(d, secs, 102400) THEN TruncDiv(3 * d, 102400 * secs)
         ELSE IF RateBelow(d, secs, 1048576) THEN 3 + TruncDiv(3 * d, 1048576 * secs)
         ELSE 6 + TruncDiv(2 * d, 6553600 * secs))

(* th: the tx bar height *)
NetTh(d, secs) ==
  Min(4, IF RateBelow(d, secs, 10240) THEN TruncDiv(2 * d, 10240 * secs)
         ELSE 2 + TruncDiv(2 * d, 655360 * secs))

(* A history loop that writes the newest slot first *)
RECURSIVE NetBarsNewestFirst(_, _)
NetBarsNewestFirst(nn, j) ==
  IF j >= nn.i THEN <<>>
  ELSE LET cur == j % NetN
           prev == (j - 1) % NetN
           secs == NetSecs(nn, cur, prev)
           rh == NetRh(nn.rx[cur] - nn.rx[prev], secs)
           th == NetTh(nn.tx[cur] - nn.tx[prev], secs)
       IN NetBarsNewestFirst(nn, j + 1)
            \o (IF secs = 0 THEN <<>>
                ELSE Emit(NORMAL, BarText(0, 8 - rh, 1, rh, 0, TRUE, GREEN))
                       \o Emit(NORMAL, BarText(0, 9, 1, th, 1, TRUE, RED)))

(* The history loop of Net::operator std::string(), from slot j up to i-1 *)
RECURSIVE NetBars(_, _)
NetBars(nn, j) ==
  IF j >= nn.i THEN <<>>
  ELSE LET cur == j % NetN
           prev == (j - 1) % NetN
           secs == NetSecs(nn, cur, prev)
           rh == NetRh(nn.rx[cur] - nn.rx[prev], secs)
           th == NetTh(nn.tx[cur] - nn.tx[prev], secs)
       IN (IF secs = 0 THEN <<>>
           ELSE Emit(NORMAL, BarText(0, 8 - rh, 1, rh, 0, TRUE, GREEN))
                  \o Emit(NORMAL, BarText(0, 9, 1, th, 1, TRUE, RED)))
          \o NetBars(nn, j + 1)

NetTextOfTwo(nn, nan) ==
  IF nn.i < 2 THEN <<>>
  ELSE NetRateText(nn, nan)
         \o NetBars(nn, IF nn.i >= NetN THEN nn.i - NetN + 3 ELSE 3)

(* Net::operator std::string() after its call of next() *)
NetTextOf(nn, nan) ==
  IF nn.i < 3 THEN <<>>
  ELSE NetRateText(nn, nan)
         \o NetBars(nn, IF nn.i >= NetN THEN nn.i - NetN + 3 ELSE 3)

-----------------------------------------------------------------------------
(* class Meminfo: construction and text.  env.meminfo is the sequence of   *)
(* the lines of /proc/meminfo, each [k |-> key, v |-> number of kB].       *)

MeminfoKeys == <<"MemTotal", "MemFree", "Buffers", "Cached">>
MeminfoFields == <<"total", "mfree", "buff", "cach">>

(* The scan loop of Meminfo::Meminfo(): m holds the members set so far,    *)
(* got the number of lines matched; the loop stops at the fourth match.    *)
RECURSIVE MeminfoScan(_, _, _, _)
MeminfoScan(lines, k, m, got) ==
  IF k > Len(lines) \/ got = 4 THEN m
  ELSE IF \E f \in 1..4 : MeminfoKeys[f] = lines[k].k
         THEN LET f == CHOOSE g \in 1..4 : MeminfoKeys[g] = lines[k].k
              IN MeminfoScan(lines, k + 1, [m EXCEPT ![MeminfoFields[f]] = lines[k].v],
                             got + 1)
         ELSE MeminfoScan(lines, k + 1, m, got)

(* Meminfo::Meminfo(): a member no line sets keeps the indeterminate       *)
(* value un.                                                               *)
MeminfoCtor(lines, un) ==
  MeminfoScan(lines, 1, [total |-> un, mfree |-> un, buff |-> un, cach |-> un], 0)

(* One labelled amount of Meminfo's text: G above 1<<20 kB, else M *)
MemAmount(kb, nan) ==
  IF kb > 1048576
    THEN Fixed1(kb, 1024 * 1024, nan) \o <<71, 32>>
    ELSE Fixed1(kb, 1024, nan) \o <<77, 32>>

(* A text whose bars each start at the width of the one before, x = w in   *)
(* place of x += w                                                         *)
MeminfoTextNoAdvance(m, nan) ==
  LET used == m.total - m.buff - m.cach - m.mfree
      wu == (100 * used) \div m.total
      wb == (100 * m.buff) \div m.total
      wc == (100 * m.cach) \div m.total
  IN <<117, 32>> \o MemAmount(used, nan)
       \o <<98, 32>> \o MemAmount(m.buff, nan)
       \o <<99, 32>> \o MemAmount(m.cach, nan)
       \o Emit(NORMAL, BarText(0, 1, wu, 12, 0, TRUE, GREEN))
       \o Emit(NORMAL, BarText(wu, 1, wb, 12, 0, TRUE, BLUE))
       \o Emit(NORMAL, BarText(wb, 1, wc, 12, 0, TRUE, ORANGE))
       \o Emit(NORMAL, BarText(0, 1, 100, 12, 101, FALSE, NORMAL))

(* Meminfo::operator std::string() (v2), for total > 0 *)
MeminfoText(m, nan) ==
  LET used == m.total - m.buff - m.cach - m.mfree
      wu == (100 * used) \div m.total
      wb == (100 * m.buff) \div m.total
      wc == (100 * m.cach) \div m.total
  IN <<117, 32>> \o MemAmount(used, nan)
       \o <<98, 32>> \o MemAmount(m.buff, nan)
       \o <<99, 32>> \o MemAmount(m.cach, nan)
       \o Emit(NORMAL, BarText(0, 1, wu, 12, 0, TRUE, GREEN))
       \o Emit(NORMAL, BarText(wu, 1, wb, 12, 0, TRUE, BLUE))
       \o Emit(NORMAL, BarText(wu + wb, 1, wc, 12, 0, TRUE, ORANGE))
       \o Emit(NORMAL, BarText(0, 1, 100, 12, 101, FALSE, NORMAL))

-----------------------------------------------------------------------------
(* class Temp.  env.thermal is <<zone0, zone1>>, each [ok |-> whether the   *)
(* file opens, v |-> its millidegrees].  temp is held as the sum of the    *)
(* ti, the double being that sum / 2000.                                   *)

(* Temp::Temp(): a zone whose file does not open leaves ti indeterminate   *)
(* (un[i]).                                                                *)
TempCtor(thermal, un) ==
  [sum |-> (IF thermal[1].ok THEN thermal[1].v ELSE un[1])
           + (IF thermal[2].ok THEN thermal[2].v ELSE un[2])]

(* Temp::color() *)
TempColor(tp) ==
  IF tp.sum > 80 * 2000 THEN RED
  ELSE IF tp.sum > 65 * 2000 THEN ORANGE
  ELSE IF tp.sum > 50 * 2000 THEN YELLOW
  ELSE GREEN

(* Temp::operator std::string() *)
TempText(tp, nan) == Fixed1(tp.sum, 2000, nan) \o <<67>>

-----------------------------------------------------------------------------
(* class Datetime.  env.tm is what localtime(time(NULL)) returns.          *)

DayNames ==
  <<<<83, 117, 110>>, <<77, 111, 110>>, <<84, 117, 101>>, <<87, 101, 100>>,
    <<84, 104, 117>>, <<70, 114, 105>>, <<83, 97, 116>>>>

MonthNames ==
  <<<<74, 97, 110>>, <<70, 101, 98>>, <<77, 97, 114>>, <<65, 112, 114>>,
    <<77, 97, 121>>, <<74, 117, 110>>, <<74, 117, 108>>, <<65, 117, 103>>,
    <<83, 101, 112>>, <<79, 99, 116>>, <<78, 111, 118>>, <<68, 101, 99>>>>

(* Datetime::operator std::string(): strftime "%a %b %d %H:%M" *)
DatetimeText(tm) ==
  DayNames[tm.wday + 1] \o <<32>> \o MonthNames[tm.mon + 1] \o <<32>>
    \o Dec2(tm.mday) \o <<32>> \o Dec2(tm.hour) \o <<58>> \o Dec2(tm.min)

-----------------------------------------------------------------------------
(* class Wifi.  env.wifi is [dir |-> whether /run/wpa_supplicant is a      *)
(* directory, entries |-> what readdir returns, in order]; an entry is     *)
(* [name, ok |-> whether wpa_ctrl_open succeeds on it, status |-> the      *)
(* lines of its STATUS response, each [k |-> key, v |-> value text]].      *)

(* enum State *)
DISCONNECTED == 0
SEARCHING == 1
CONNECTING == 2
CONNECTED == 3
WIFI_OFF == 4

TxtCOMPLETED == <<67, 79, 77, 80, 76, 69, 84, 69, 68>>
TxtDISCONNECTED == <<68, 73, 83, 67, 79, 78, 78, 69, 67, 84, 69, 68>>
TxtINACTIVE == <<73, 78, 65, 67, 84, 73, 86, 69>>
TxtSCANNING == <<83, 67, 65, 78, 78, 73, 78, 71>>
TxtINTERFACE_DISABLED ==
  <<73, 78, 84, 69, 82, 70, 65, 67, 69, 95, 68, 73, 83, 65, 66, 76, 69, 68>>

WpaStateNoInactive(statestr) ==
  IF statestr = TxtCOMPLETED THEN CONNECTED
  ELSE IF statestr = TxtDISCONNECTED THEN DISCONNECTED
  ELSE IF statestr = TxtSCANNING THEN SEARCHING
  ELSE IF statestr = TxtINTERFACE_DISABLED THEN WIFI_OFF
  ELSE CONNECTING

(* The mapping of the wpa_state text in WpaCtrl::status *)
WpaState(statestr) ==
  IF statestr = TxtCOMPLETED THEN CONNECTED
  ELSE IF statestr = TxtDISCONNECTED \/ statestr = TxtINACTIVE THEN DISCONNECTED
  ELSE IF statestr = TxtSCANNING THEN SEARCHING
  ELSE IF statestr = TxtINTERFACE_DISABLED THEN WIFI_OFF
  ELSE CONNECTING

(* The loop of WpaCtrl::status from line k: a line whose key matches is    *)
(* read to its end by the getline of the value, and the getline into       *)
(* discard then reads the line after it; a line whose key does not match   *)
(* is finished by the getline into discard.                                *)
RECURSIVE WpaStatus(_, _, _)
WpaStatus(lines, k, r) ==
  IF k > Len(lines) THEN r
  ELSE IF lines[k].k = "ssid"
         THEN WpaStatus(lines, k + 2, [r EXCEPT !.ssid = lines[k].v])
  ELSE IF lines[k].k = "wpa_state"
         THEN WpaStatus(lines, k + 2, [r EXCEPT !.state = WpaState(lines[k].v)])
  ELSE WpaStatus(lines, k + 1, r)

(* Dir::next() and the loop of Wifi::Wifi() from entry k.  At the end of   *)
(* the directory readdir returns NULL and Dir::next compares a std::string *)
(* with that null pointer, which is undefined: atNull is "segv" (the       *)
(* process is killed) or "null" (the comparison is false and NULL is       *)
(* returned, which ends the loop).                                         *)
RECURSIVE WifiScan(_, _, _)
WifiScan(entries, k, atNull) ==
  IF k > Len(entries)
    THEN [ssid |-> <<>>, state |-> WIFI_OFF, present |-> FALSE,
          fault |-> (atNull = "segv")]
  ELSE IF entries[k].name = "." \/ entries[k].name = ".."
    THEN WifiScan(entries, k + 1, atNull)
  ELSE IF entries[k].ok
    THEN WpaStatus(entries[k].status, 1,
                   [ssid |-> <<>>, state |-> WIFI_OFF, present |-> TRUE,
                    fault |-> FALSE])
  ELSE WifiScan(entries, k + 1, atNull)

(* Wifi::Wifi() *)
WifiCtor(wifi, atNull) ==
  IF wifi.dir
    THEN WifiScan(wifi.entries, 1, atNull)
    ELSE [ssid |-> <<>>, state |-> WIFI_OFF, present |-> FALSE, fault |-> FALSE]

(* Wifi::color() *)
WifiColor(wf) ==
  IF wf.state = WIFI_OFF THEN RED
  ELSE IF wf.state = DISCONNECTED THEN ORANGE
  ELSE IF wf.state = SEARCHING THEN YELLOW
  ELSE IF wf.state = CONNECTING THEN GREEN
  ELSE IF wf.state = CONNECTED THEN BLUE
  ELSE NORMAL

(* Wifi::operator std::string() *)
WifiText(wf) ==
  IF wf.state = WIFI_OFF THEN <<119, 105, 102, 105, 32, 111, 102, 102>>
  ELSE IF wf.ssid = <<>> THEN <<63, 63, 63>>
  ELSE wf.ssid

-----------------------------------------------------------------------------
(* The operating system at process start, and the objects before their    *)
(* construction.                                                           *)

(* Bounds of the model *)
NCpu == 2
MaxTicks == 3
MaxEmits == 2
MaxEnergy == 1000
MaxCpuTicks == 2
MaxNetTicks == 5
MaxLoad == 1000
MaxNcpu == 4
MaxMemKb == 12
MaxScale == 3
MaxReqTicks == 3
MaxTempC == 70
MaxWifiToggles == 1
MaxRingTicks == 63
MaxNetFaults == 1
MaxClockTicks == 5

BootStatLine == <<30, 0, 15, 240, 15>>

AddLines(x, y) == [j \in 1..Len(x) |-> x[j] + y[j]]

RECURSIVE SumLines(_, _)
SumLines(lines, k) ==
  IF k = 0 THEN [j \in 1..5 |-> 0] ELSE AddLines(lines[k], SumLines(lines, k - 1))

(* /proc/stat: the aggregate line is the sum of the per-core lines *)
StatOf(cores) == <<SumLines(cores, Len(cores))>> \o cores

NoBattery == [dir |-> FALSE, p |-> 0, energy_now |-> 0, energy_full |-> 0, power_now |-> 0]

MeminfoLines(total, mfree, buff, cach) ==
  <<[k |-> "MemTotal", v |-> total], [k |-> "MemFree", v |-> mfree],
    [k |-> "MemAvailable", v |-> mfree + cach], [k |-> "Buffers", v |-> buff],
    [k |-> "Cached", v |-> cach], [k |-> "SwapCached", v |-> 0]>>

EnvBoot ==
  [ncpu |-> NCpu,
   stat |-> StatOf([i \in 1..NCpu |-> BootStatLine]),
   netdev |-> [ok |-> TRUE, rx |-> 1000, tx |-> 500, fits |-> TRUE],
   now |-> 100000,
   bat |-> <<NoBattery, NoBattery>>,
   ac |-> [ok |-> TRUE, v |-> 1],
   wifi |-> [dir |-> FALSE, entries |-> <<>>],
   meminfo |-> MeminfoLines(8000, 2000, 500, 3000),
   thermal |-> <<[ok |-> TRUE, v |-> 47000], [ok |-> TRUE, v |-> 52000]>>,
   tm |-> [wday |-> 2, mon |-> 10, mday |-> 3, hour |-> 22, min |-> 6],
   loadavg |-> [one |-> 50, five |-> 40, fifteen |-> 30],
   files |-> [loadavg |-> TRUE, loadnums |-> 3, meminfo |-> TRUE]]

(* Battery's member initialisers: _percent(0), _minutes(0),               *)
(* _present(false), _direction('!')                                        *)
BatteryInit == [percent |-> 0, minutes |-> 0, present |-> FALSE, direction |-> 33]

(* Wifi's member initialisers *)
WifiInit == [ssid |-> <<>>, state |-> WIFI_OFF, present |-> FALSE, fault |-> FALSE]

CpuNone == [n |-> 0]
MemNone == [n |-> 0]
LoadNone == [n |-> 0]

(* Everything but pc and env at process start *)
Fresh ==
  /\ tick = 0
  /\ ss = <<>>
  /\ out = <<>>
  /\ title = <<>>
  /\ synced = TRUE
  /\ cpuStatic = CpuStaticInit
  /\ cpu = CpuNone
  /\ n = NetCtor
  /\ netText = <<>>
  /\ b = BatteryInit
  /\ w = WifiInit
  /\ mem = MemNone
  /\ temp = [sum |-> 0]
  /\ load = LoadNone
  /\ hist = <<>>

-----------------------------------------------------------------------------
(* Metric::operator<< on its own: metrics of every colour written to one   *)
(* stream.                                                                 *)

EmitTexts == {<<>>, <<58, 58>>, <<52, 50, 37>>}

InitEmit == pc = "emit" /\ env = EnvBoot /\ Fresh

EmitMetric ==
  /\ pc = "emit"
  /\ Len(out) < MaxEmits
  /\ \E c \in Colors, text \in EmitTexts :
       /\ ss' = ss \o Emit(c, text)
       /\ out' = Append(out, [m |-> "Metric", color |-> c, text |-> text])
  /\ UNCHANGED <<pc, tick, env, title, synced, cpuStatic, cpu, n, netText, b, w,
                 mem, temp, load, hist>>

SpecEmit == InitEmit /\ [][EmitMetric]_vars

(* What the claim says one operator<< call writes for call record r *)
Written(r) == IF r.color # NORMAL THEN <<r.color>> \o r.text \o <<1>> ELSE r.text

(* C1: every metric written with operator<< puts on the stream its colour  *)
(* byte (2..8), its text and the byte 0x01 when its colour is not NORMAL,  *)
(* and exactly its text when its colour is NORMAL.                         *)
C1_Emit ==
  /\ ss = Flatten([k \in 1..Len(out) |-> Written(out[k])])
  /\ \A k \in 1..Len(out) : out[k].color # NORMAL => out[k].color \in 2..8

C1_Witness ==
  /\ Len(out) = 2
  /\ out[1].color = GREEN /\ out[1].text = <<52, 50, 37>>
  /\ out[2].color = NORMAL /\ out[2].text = <<58, 58>>
  /\ ss = <<8, 52, 50, 37, 1, 58, 58>>

-----------------------------------------------------------------------------
(* Battery on its own: one construction and rendering per sysfs reading.   *)

PowerVals == {-300, 0, 7, 300}

Bat0Readings ==
  {NoBattery}
    \cup {[dir |-> TRUE, p |-> 1, energy_now |-> en, energy_full |-> ef, power_now |-> pw] :
            en \in 0..MaxEnergy, ef \in {0, MaxEnergy}, pw \in PowerVals}

(* A second battery: none, or a full idle one *)
Bat1Readings ==
  {NoBattery,
   [dir |-> TRUE, p |-> 1, energy_now |-> MaxEnergy, energy_full |-> MaxEnergy,
    power_now |-> 0]}

AcReadings == {[ok |-> TRUE, v |-> 0], [ok |-> TRUE, v |-> 1], [ok |-> FALSE, v |-> 0]}

InitBattery ==
  /\ pc = "bat"
  /\ \E b0 \in Bat0Readings, b1 \in Bat1Readings, a \in AcReadings :
       env = [EnvBoot EXCEPT !.bat = <<b0, b1>>, !.ac = a]
  /\ Fresh

(* Battery b; *)
BatterySample ==
  /\ pc = "bat"
  /\ \E ubAc \in UninitInt, ubPercent \in UBInt, ubMinutes \in UBInt :
       b' = BatteryCtor(env.bat, env.ac, ubAc, ubPercent, ubMinutes)
  /\ pc' = "render"
  /\ UNCHANGED <<tick, env, ss, out, title, synced, cpuStatic, cpu, n, netText, w,
                 mem, temp, load, hist>>

(* if (b.present()) ss << b; *)
BatteryRender ==
  /\ pc = "render"
  /\ IF b.present
       THEN /\ out' = <<[m |-> "Battery", color |-> BatteryColor(b), text |-> BatteryText(b)]>>
            /\ ss' = Emit(BatteryColor(b), BatteryText(b))
       ELSE UNCHANGED <<out, ss>>
  /\ pc' = "done"
  /\ UNCHANGED <<tick, env, title, synced, cpuStatic, cpu, n, netText, b, w,
                 mem, temp, load, hist>>

SpecBattery == InitBattery /\ [][BatterySample \/ BatteryRender]_vars

(* The sums of the readings of the batteries that report present *)
EnvEnergyNow ==
  (IF env.bat[1].dir /\ env.bat[1].p # 0 THEN env.bat[1].energy_now ELSE 0)
    + (IF env.bat[2].dir /\ env.bat[2].p # 0 THEN env.bat[2].energy_now ELSE 0)
EnvEnergyFull ==
  (IF env.bat[1].dir /\ env.bat[1].p # 0 THEN env.bat[1].energy_full ELSE 0)
    + (IF env.bat[2].dir /\ env.bat[2].p # 0 THEN env.bat[2].energy_full ELSE 0)
EnvPower ==
  (IF env.bat[1].dir /\ env.bat[1].p # 0 THEN env.bat[1].power_now ELSE 0)
    + (IF env.bat[2].dir /\ env.bat[2].p # 0 THEN env.bat[2].power_now ELSE 0)

(* 100 - 100*energy_now/energy_full < 0.5, over the rationals; with        *)
(* energy_full = 0 it holds for energy_now > 0 (the quotient is +inf).     *)
EnvNearFull == 200 * (EnvEnergyFull - EnvEnergyNow) < EnvEnergyFull

BatteryRendered == pc = "done" /\ b.present /\ env.ac.ok

HasHourMin(text) == \E k \in 1..Len(text) : text[k] = 58

(* C23: whenever a battery is present, also with a summed power_now of 0   *)
(* or a summed energy_full of 0, the construction divides by no zero and   *)
(* ends with percent in 0..100 and minutes an integer >= 0.                *)
C23_BatterySafe ==
  (pc \in {"render", "done"} /\ b.present) =>
    /\ EnvEnergyFull # 0
    /\ b.direction # 61 => EnvPower # 0
    /\ b.percent \in 0..100
    /\ b.minutes >= 0

(* C6: with AC online and the charge less than 0.5 below 100 the Battery   *)
(* shows percent 100, direction '=', 0 minutes and exactly "=100%"; the    *)
(* " H:MM" suffix is there in every case but percent 100 on AC.            *)
C6_FullOnAc ==
  BatteryRendered =>
    /\ (env.ac.v = 1 /\ EnvNearFull) =>
         /\ b.percent = 100
         /\ b.direction = 61
         /\ b.minutes = 0
         /\ out[1].text = <<61, 49, 48, 48, 37>>
    /\ HasHourMin(out[1].text) <=> ~(b.percent = 100 /\ env.ac.v = 1)
    /\ HasHourMin(out[1].text) =>
         /\ Len(out[1].text) >= 7
         /\ out[1].text[Len(out[1].text) - 2] = 58
         /\ \E k \in 1..Len(out[1].text) : out[1].text[k] = 32

C6_Witness ==
  /\ BatteryRendered
  /\ env.ac.v = 1
  /\ EnvEnergyNow = 996 /\ EnvEnergyFull = 1000
  /\ out[1].text = <<61, 49, 48, 48, 37>>

(* C7, as the specification states it: the percent is the nearest integer  *)
(* to 100*energy_now/energy_full (50.7 gives 51), and 100 when less than   *)
(* 0.5 below 100.                                                          *)
C7_Rounds ==
  (pc = "done" /\ b.present /\ EnvEnergyFull > 0
     /\ 0 <= EnvEnergyNow /\ EnvEnergyNow <= EnvEnergyFull) =>
    b.percent = (IF EnvNearFull THEN 100
                 ELSE (200 * EnvEnergyNow + EnvEnergyFull) \div (2 * EnvEnergyFull))

(* C7, amended: the percent is 100*energy_now/energy_full with its         *)
(* fraction dropped (50.7 gives 50), and 100 when less than 0.5 below 100. *)
C7_Truncates ==
  (pc = "done" /\ b.present /\ EnvEnergyFull > 0
     /\ 0 <= EnvEnergyNow /\ EnvEnergyNow <= EnvEnergyFull) =>
    /\ b.percent = (IF EnvNearFull THEN 100
                    ELSE (100 * EnvEnergyNow) \div EnvEnergyFull)
    /\ b.percent \in 0..100

C7_Witness ==
  /\ pc = "done" /\ b.present
  /\ EnvEnergyNow = 507 /\ EnvEnergyFull = 1000
  /\ b.percent = 50

(* C8: with power > 0, on AC at 100 percent the direction is '=' with 0    *)
(* minutes; on AC below 100 it is '+' with floor(60*(full - now)/power)    *)
(* minutes; off AC it is '-' with floor(60*now/power) minutes; a negative  *)
(* result is replaced by 0.                                                *)
C8_DirectionMinutes ==
  (BatteryRendered /\ EnvPower > 0) =>
    /\ (env.ac.v = 1 /\ b.percent = 100) => (b.direction = 61 /\ b.minutes = 0)
    /\ (env.ac.v = 1 /\ b.percent < 100) =>
         /\ b.direction = 43
         /\ b.minutes = Max(0, (60 * (EnvEnergyFull - EnvEnergyNow)) \div EnvPower)
    /\ env.ac.v # 1 =>
         /\ b.direction = 45
         /\ b.minutes = Max(0, (60 * EnvEnergyNow) \div EnvPower)
    /\ b.minutes >= 0

C8_Witness ==
  /\ BatteryRendered /\ EnvPower = 300
  /\ env.ac.v = 1 /\ EnvEnergyNow = 400 /\ EnvEnergyFull = 1000
  /\ b.direction = 43 /\ b.minutes = 120
  /\ out[1].text = <<43, 52, 48, 37, 32, 50, 58, 48, 48>>

-----------------------------------------------------------------------------
(* Load on its own: one construction and colour per /proc/loadavg reading  *)
(* and core count.                                                         *)

InitLoad ==
  /\ pc = "load"
  /\ \E one \in 0..MaxLoad, nc \in 1..MaxNcpu :
       env = [EnvBoot EXCEPT !.loadavg = [one |-> one, five |-> 40, fifteen |-> 30],
                             !.ncpu = nc]
  /\ Fresh

(* Load::Load(): f >> one >> five >> fifteen *)
LoadCtor(loadavg) == [one |-> loadavg.one, five |-> loadavg.five, fifteen |-> loadavg.fifteen]

LoadSample ==
  /\ pc = "load"
  /\ load' = [n |-> 1, obj |-> LoadCtor(env.loadavg)]
  /\ pc' = "color"
  /\ UNCHANGED <<tick, env, ss, out, title, synced, cpuStatic, cpu, n, netText, b, w,
                 mem, temp, hist>>

(* Load::color(), with static ncpu = getncpu() *)
LoadColorStep ==
  /\ pc = "color"
  /\ load' = [load EXCEPT !.n = 2] @@ [color |-> LoadColor(load.obj, env.ncpu)]
  /\ pc' = "done"
  /\ UNCHANGED <<tick, env, ss, out, title, synced, cpuStatic, cpu, n, netText, b, w,
                 mem, temp, hist>>

SpecLoad == InitLoad /\ [][LoadSample \/ LoadColorStep]_vars

(* C9: the Load colour is Red above 2n, else Orange above the real 1.5n,   *)
(* else Yellow above n, else Blue (one in hundredths, n = ncpu): so a load *)
(* strictly between n and 1.5n is Yellow.                                  *)
C9_LoadBands ==
  (pc = "done" /\ load.n = 2) =>
    load.color = (IF load.obj.one > 200 * env.ncpu THEN RED
                  ELSE IF 2 * load.obj.one > 300 * env.ncpu THEN ORANGE
                  ELSE IF load.obj.one > 100 * env.ncpu THEN YELLOW
                  ELSE BLUE)

-----------------------------------------------------------------------------
(* Meminfo on its own: a sample is read and coloured, the same memory is   *)
(* then reported in a unit k times finer, and read and coloured again.     *)

InitMem ==
  /\ pc = "mem"
  /\ \E t \in 1..MaxMemKb :
       \E f \in 0..t :
         \E bu \in 0..(t - f) :
           \E c \in 0..(t - f - bu) :
             env = [EnvBoot EXCEPT !.meminfo = MeminfoLines(t, f, bu, c)]
  /\ Fresh

(* Meminfo(), its color() and its text *)
MemSample ==
  /\ pc = "mem"
  /\ mem.n < 2
  /\ \E un \in UninitInt, nan \in NanTexts :
       LET m == MeminfoCtor(env.meminfo, un)
       IN mem' = [n |-> mem.n + 1, obj |-> m, color |-> MeminfoColor(m),
                  text |-> MeminfoText(m, nan), prev |-> mem]
  /\ pc' = "rescale"
  /\ UNCHANGED <<tick, env, ss, out, title, synced, cpuStatic, cpu, n, netText, b, w,
                 temp, load, hist>>

MemRescale ==
  /\ pc = "rescale"
  /\ mem.n < 2
  /\ \E k \in 1..MaxScale :
       env' = [env EXCEPT !.meminfo = [j \in 1..Len(env.meminfo) |->
                                         [env.meminfo[j] EXCEPT !.v = k * @]]]
  /\ pc' = "mem"
  /\ UNCHANGED <<tick, ss, out, title, synced, cpuStatic, cpu, n, netText, b, w,
                 mem, temp, load, hist>>

SpecMem == InitMem /\ [][MemSample \/ MemRescale]_vars

MemScaled(m, k) ==
  [total |-> k * m.total, mfree |-> k * m.mfree, buff |-> k * m.buff, cach |-> k * m.cach]

(* C10: Meminfo's colour is Red when (free+cached)*10 < total, else Orange *)
(* when (free+cached)*5 < total, else Yellow when (free+cached)*3 < total, *)
(* else Green; a sample k times another one has the same colour.           *)
C10_MemBands ==
  mem.n >= 1 =>
    /\ mem.color = (IF (mem.obj.mfree + mem.obj.cach) * 10 < mem.obj.total THEN RED
                    ELSE IF (mem.obj.mfree + mem.obj.cach) * 5 < mem.obj.total THEN ORANGE
                    ELSE IF (mem.obj.mfree + mem.obj.cach) * 3 < mem.obj.total THEN YELLOW
                    ELSE GREEN)
    /\ (mem.n = 2 /\ \E k \in 1..MaxScale : mem.obj = MemScaled(mem.prev.obj, k)) =>
         mem.color = mem.prev.color

C10_Witness ==
  /\ mem.n = 2
  /\ mem.prev.obj = [total |-> 12, mfree |-> 1, buff |-> 3, cach |-> 1]
  /\ mem.obj = [total |-> 36, mfree |-> 3, buff |-> 9, cach |-> 3]
  /\ mem.color = ORANGE /\ mem.prev.color = ORANGE

(* The positions in text of the label made of letter and a space *)
LabelsIn(text, letter) ==
  {k \in 1..(Len(text) - 1) : text[k] = letter /\ text[k + 1] = 32}

(* C11: the text of the Memory block holds the four labelled fields used,  *)
(* free, buffers and cached, in the order "u", "f", "b", "c".              *)
C11_MemFields ==
  mem.n >= 1 =>
    \E ku \in LabelsIn(mem.text, 117), kf \in LabelsIn(mem.text, 102),
       kb \in LabelsIn(mem.text, 98), kc \in LabelsIn(mem.text, 99) :
      ku < kf /\ kf < kb /\ kb < kc

-----------------------------------------------------------------------------
(* Cpuinfo on its own: the statement ss << Cpuinfo() once per tick, the    *)
(* jiffies of every core advancing between ticks.                          *)

(* What a core can spend between two samples: nothing (no jiffies pass),   *)
(* a mostly idle interval, a busy one.                                     *)
CpuDeltas == {<<0, 0, 0, 0, 0>>, <<10, 0, 5, 80, 5>>, <<60, 5, 30, 5, 0>>}

CoresOf(stat) == [i \in 1..(Len(stat) - 1) |-> stat[i + 1]]

StatAdvance(stat, ds) == StatOf([i \in 1..Len(ds) |-> AddLines(CoresOf(stat)[i], ds[i])])

InitCpu == pc = "cpu" /\ env = EnvBoot /\ Fresh

(* ss << Cpuinfo(): construction, rendering, and the destruction of the    *)
(* temporary at the end of the statement.                                  *)
CpuStatement(e, ub, ubw) ==
  LET st == CpuStaticEnsure(cpuStatic, e.ncpu)
      c == CpuinfoCtor(e.stat, st.nelts)
  IN /\ cpu' = [n |-> cpu.n + 1, cur |-> c, base |-> st,
                shown |-> CpuShown(c, st, ub), text |-> CpuText(c, st, ub, ubw),
                prev |-> IF cpu.n = 0 THEN CpuNone ELSE [shown |-> cpu.shown]]
     /\ cpuStatic' = CpuinfoDtor(st, c)

CpuTick ==
  /\ pc = "cpu"
  /\ tick < MaxCpuTicks
  /\ \E ds \in [1..NCpu -> CpuDeltas], ub \in UBInt, ubw \in UBInt :
       LET e == [env EXCEPT !.stat = StatAdvance(env.stat, ds)]
       IN /\ env' = e
          /\ CpuStatement(e, ub, ubw)
          /\ ss' = Emit(NORMAL, CpuText(CpuinfoCtor(e.stat, e.ncpu + 1),
                                        CpuStaticEnsure(cpuStatic, e.ncpu), ub, ubw))
  /\ tick' = tick + 1
  /\ UNCHANGED <<pc, out, title, synced, n, netText, b, w, mem, temp, load, hist>>

SpecCpu == InitCpu /\ [][CpuTick]_vars

CpuFns == {"pct", "user", "sys", "io"}

(* C4: when a core's total jiffies equal those of the previous sample, its *)
(* percentages are 0 or the values of the previous tick.                   *)
C4_StalledCore ==
  cpu.n >= 1 =>
    \A i \in 0..(cpu.base.nelts - 1) :
      cpu.cur.total_cur[i] = cpu.base.total_last[i] =>
        \A f \in CpuFns :
          \/ cpu.shown[f][i] = 0
          \/ cpu.n >= 2 /\ cpu.shown[f][i] = cpu.prev.shown[f][i]

(* C5: in the first tick the CPU block shows zero percentages or nothing;  *)
(* it is not computed against the zero baseline.                           *)
C5_FirstTick ==
  cpu.n = 1 =>
    \/ cpu.text = <<>>
    \/ \A i \in 0..(cpu.base.nelts - 1) : \A f \in CpuFns : cpu.shown[f][i] = 0

-----------------------------------------------------------------------------
(* Net on its own: ss << n once per tick, the interface counters and the   *)
(* clock advancing between ticks.                                          *)

(* Bytes received and sent between two samples *)
NetDeltas == {<<0, 0>>, <<51200, 2048>>, <<30000000, 700000>>}

(* Milliseconds between two samples *)
NetDts == {999, 5000}

InitNet == pc = "net" /\ env = EnvBoot /\ Fresh

NetTick ==
  /\ pc = "net"
  /\ tick < MaxNetTicks
  /\ \E d \in NetDeltas, dt \in NetDts, nan \in NanTexts :
       LET e == [env EXCEPT !.netdev.rx = @ + d[1], !.netdev.tx = @ + d[2],
                            !.now = @ + dt]
           nn == NetNext(n, e.netdev, e.now)
       IN /\ env' = e
          /\ n' = nn
          /\ netText' = NetTextOf(nn, nan)
          /\ ss' = Emit(NORMAL, NetTextOf(nn, nan))
  /\ tick' = tick + 1
  /\ UNCHANGED <<pc, out, title, synced, cpuStatic, cpu, b, w, mem, temp, load, hist>>

SpecNet == InitNet /\ [][NetTick]_vars

(* The samples taken so far have strictly increasing counters and are at   *)
(* least one second apart (no slot has been overwritten: tick <= NetN).    *)
NetSteady ==
  \A j \in 1..(n.i - 1) :
    /\ n.rx[j] > n.rx[j - 1]
    /\ n.tx[j] > n.tx[j - 1]
    /\ n.t[j] - n.t[j - 1] >= 1000

(* The positions of a rate's unit letter (k, M) in a text *)
UnitsIn(text) == {k \in 1..Len(text) : text[k] \in {107, 77}}

IsDigit(x) == x \in 48..57

(* C3: the Network block is empty in ticks 1 and 2; from tick 3 on, when   *)
(* the counters increase strictly and the samples are at least one second  *)
(* apart, it is not empty and holds two rates: each a colour byte, digits, *)
(* a point, a digit, k or M, and the byte 0x01.                            *)
C3_NetBlank ==
  /\ n.i = tick
  /\ tick \in {1, 2} => netText = <<>>
  /\ (tick >= 3 /\ NetSteady) =>
       /\ netText # <<>>
       /\ Cardinality(UnitsIn(netText)) = 2
       /\ netText[1] \in RED..GREEN
       /\ \A k \in UnitsIn(netText) :
            /\ IsDigit(netText[k - 1]) /\ netText[k - 2] = 46 /\ IsDigit(netText[k - 3])
            /\ netText[k + 1] = 1

C3_Witness ==
  /\ tick = 4 /\ NetSteady
  /\ \E k \in 1..Len(netText) : netText[k] = 77
  /\ \E k \in 1..Len(netText) : netText[k] = 107
  /\ Len(netText) > 14

-----------------------------------------------------------------------------
(* main(): Net n("wlp3s0") and the loop for (;;sleep(5)) { ... }.  One     *)
(* iteration is Compose (the objects b and w and the statements that write *)
(* to ss), StoreName, Sync and Sleep; the operating system changes while   *)
(* the process sleeps.                                                     *)

DotEntry(name) == [name |-> name, ok |-> FALSE, status |-> <<>>]

TxtHome == <<104, 111, 109, 101>>

(* /run/wpa_supplicant: missing, holding a socket that answers, holding    *)
(* only a socket that does not open                                        *)
WifiNone == [dir |-> FALSE, entries |-> <<>>]
WifiUp ==
  [dir |-> TRUE,
   entries |-> <<DotEntry("."), DotEntry(".."),
                 [name |-> "wlp3s0", ok |-> TRUE,
                  status |-> <<[k |-> "bssid", v |-> <<48>>],
                               [k |-> "ssid", v |-> TxtHome],
                               [k |-> "id", v |-> <<48>>],
                               [k |-> "wpa_state", v |-> TxtCOMPLETED],
                               [k |-> "address", v |-> <<48>>]>>]>>]
WifiStale ==
  [dir |-> TRUE,
   entries |-> <<DotEntry("."), DotEntry(".."),
                 [name |-> "p2p-dev-wlp3s0", ok |-> FALSE, status |-> <<>>]>>]

MainWifis == {WifiNone, WifiUp, WifiStale}

(* BAT0: missing, discharging at 42%, full *)
MainBats ==
  {NoBattery,
   [dir |-> TRUE, p |-> 1, energy_now |-> 420, energy_full |-> 1000, power_now |-> 300],
   [dir |-> TRUE, p |-> 1, energy_now |-> 998, energy_full |-> 1000, power_now |-> 0]}

(* Jiffies every core spends during one sleep *)
MainCpuDelta == <<60, 5, 30, 5, 0>>

(* The indeterminate values a statement can meet: one of vals where the    *)
(* reading that would initialise the object is missing, else unused        *)
Indeterminate(needed, vals) == IF needed THEN vals ELSE {0}

CpuStalled(c, st) == \E i \in 0..(st.nelts - 1) : c.total_cur[i] = st.total_last[i]

MeminfoComplete(lines) ==
  \A f \in 1..4 : \E k \in 1..Len(lines) : lines[k].k = MeminfoKeys[f]

Call(m, color, text) == [m |-> m, color |-> color, text |-> text]

MainCallsNoGate(bt, wf, cpuText, m, memText, nText, tp, tempText, dtText) ==
  <<Call("Cpuinfo", NORMAL, cpuText), Call("Meminfo", MeminfoColor(m), memText),
    Call("Net", NORMAL, nText), Call("Separator", SeparatorColor, SeparatorText),
    Call("Temp", TempColor(tp), tempText),
    Call("Separator", SeparatorColor, SeparatorText),
    Call("Wifi", WifiColor(wf), WifiText(wf)),
    Call("Separator", SeparatorColor, SeparatorText),
    Call("Battery", BatteryColor(bt), BatteryText(bt)),
    Call("Separator", SeparatorColor, SeparatorText),
    Call("char", NORMAL, <<32>>), Call("Datetime", NORMAL, dtText)>>

(* The operator<< calls of one iteration, in order; "char" is ss << ' ' *)
MainCalls(bt, wf, cpuText, m, memText, nText, tp, tempText, dtText) ==
  <<Call("Cpuinfo", NORMAL, cpuText), Call("Meminfo", MeminfoColor(m), memText),
    Call("Net", NORMAL, nText), Call("Separator", SeparatorColor, SeparatorText),
    Call("Temp", TempColor(tp), tempText),
    Call("Separator", SeparatorColor, SeparatorText)>>
  \o (IF wf.present
        THEN <<Call("Wifi", WifiColor(wf), WifiText(wf)),
               Call("Separator", SeparatorColor, SeparatorText)>>
        ELSE <<>>)
  \o (IF bt.present
        THEN <<Call("Battery", BatteryColor(bt), BatteryText(bt)),
               Call("Separator", SeparatorColor, SeparatorText)>>
        ELSE <<>>)
  \o <<Call("char", NORMAL, <<32>>), Call("Datetime", NORMAL, dtText)>>

(* What the calls write to the stream *)
StreamOf(calls) == Flatten([k \in 1..Len(calls) |-> Emit(calls[k].color, calls[k].text)])

(* s.c_str() as XStoreName reads it: the bytes before the first zero byte *)
CStr(s) ==
  LET zeros == {k \in 1..Len(s) : s[k] = 0}
  IN IF zeros = {} THEN s
     ELSE SubSeq(s, 1, (CHOOSE k \in zeros : \A j \in zeros : k <= j) - 1)

(* What this tick's readings offer: a BAT<i> directory whose present file  *)
(* is not 0, a wpa_supplicant socket that opens                            *)
BatAvailable(e) == \E i \in 1..2 : e.bat[i].dir /\ e.bat[i].p # 0
WifiAvailable(e) ==
  /\ e.wifi.dir
  /\ \E k \in 1..Len(e.wifi.entries) :
       e.wifi.entries[k].ok /\ e.wifi.entries[k].name \notin {".", ".."}

Init == pc = "loop" /\ env = EnvBoot /\ Fresh

(* std::stringstream ss; Battery b; Wifi w; ss << ... << Datetime();       *)
(* A fault in Wifi::Wifi() ends the process before anything is written.    *)
ComposeUpTo(limit) ==
  /\ pc = "loop"
  /\ tick < limit
  /\ LET st == CpuStaticEnsure(cpuStatic, env.ncpu)
         c == CpuinfoCtor(env.stat, st.nelts)
         nn == NetNext(n, env.netdev, env.now)
         noEnergy == ~BatAvailable(env)
     IN \E ubAc \in Indeterminate(~env.ac.ok, UninitInt),
           ubPercent \in Indeterminate(noEnergy, UBInt),
           ubMinutes \in Indeterminate(noEnergy, UBInt),
           atNull \in {"segv", "null"},
           ub \in Indeterminate(CpuStalled(c, st), UBInt),
           ubw \in Indeterminate(CpuStalled(c, st), UBInt),
           un \in Indeterminate(~MeminfoComplete(env.meminfo), UninitInt),
           ut \in Indeterminate(\E z \in 1..2 : ~env.thermal[z].ok, UninitInt),
           nan \in NanTexts :
          LET bt == BatteryCtor(env.bat, env.ac, ubAc, ubPercent, ubMinutes)
              wf == WifiCtor(env.wifi, atNull)
              m == MeminfoCtor(env.meminfo, un)
              tp == TempCtor(env.thermal, <<ut, ut>>)
              calls == MainCalls(bt, wf, CpuText(c, st, ub, ubw), m,
                                 MeminfoText(m, nan), NetTextOf(nn, nan), tp,
                                 TempText(tp, nan), DatetimeText(env.tm))
          IN /\ b' = bt
             /\ w' = wf
             /\ IF wf.fault
                  THEN /\ pc' = "dead"
                       /\ UNCHANGED <<tick, ss, out, cpuStatic, cpu, n, netText, mem,
                                      temp, hist>>
                  ELSE /\ pc' = "store"
                       /\ tick' = tick + 1
                       /\ out' = calls
                       /\ ss' = StreamOf(calls)
                       /\ CpuStatement(env, ub, ubw)
                       /\ n' = nn
                       /\ netText' = NetTextOf(nn, nan)
                       /\ mem' = [n |-> 1, m |-> m]
                       /\ temp' = tp
                       /\ hist' = Append(hist, [wifi |-> WifiAvailable(env),
                                                bat |-> BatAvailable(env),
                                                names |-> [k \in 1..Len(calls) |->
                                                             calls[k].m]])
  /\ UNCHANGED <<env, title, synced, load>>

Compose == ComposeUpTo(MaxTicks)

(* XStoreName(dpy, DefaultRootWindow(dpy), s.c_str()) *)
StoreName ==
  /\ pc = "store"
  /\ title' = CStr(ss)
  /\ synced' = FALSE
  /\ pc' = "sync"
  /\ UNCHANGED <<tick, env, ss, out, cpuStatic, cpu, n, netText, b, w, mem, temp,
                 load, hist>>

(* A loop that goes to sleep without flushing the display *)
SyncLazy ==
  /\ pc = "sync"
  /\ pc' = "sleep"
  /\ UNCHANGED <<tick, env, ss, out, title, synced, cpuStatic, cpu, n, netText, b,
                 w, mem, temp, load, hist>>

(* XSync(dpy, False) *)
Sync ==
  /\ pc = "sync"
  /\ synced' = TRUE
  /\ pc' = "sleep"
  /\ UNCHANGED <<tick, env, ss, out, title, cpuStatic, cpu, n, netText, b, w, mem,
                 temp, load, hist>>

(* sleep(5): the counters, the clock and the devices move on *)
Sleep ==
  /\ pc = "sleep"
  /\ \E bat0 \in MainBats, wifi \in MainWifis :
       env' = [env EXCEPT !.stat = StatAdvance(env.stat,
                                               [i \in 1..env.ncpu |-> MainCpuDelta]),
                          !.netdev.rx = @ + 51200, !.netdev.tx = @ + 2048,
                          !.now = @ + 5000,
                          !.bat = <<bat0, NoBattery>>,
                          !.wifi = wifi]
  /\ pc' = "loop"
  /\ UNCHANGED <<tick, ss, out, title, synced, cpuStatic, cpu, n, netText, b, w,
                 mem, temp, load, hist>>

Next == Compose \/ StoreName \/ Sync \/ Sleep

Spec == Init /\ [][Next]_vars

(* The names of the calls of a tick in which wifi and battery are present  *)
(* or not                                                                  *)
ExpectedNames(wifi, bat) ==
  <<"Cpuinfo", "Meminfo", "Net", "Separator", "Temp", "Separator">>
    \o (IF wifi THEN <<"Wifi", "Separator">> ELSE <<>>)
    \o (IF bat THEN <<"Battery", "Separator">> ELSE <<>>)
    \o <<"char", "Datetime">>

Composed == pc \in {"store", "sync", "sleep"}

(* C2: in every tick the line is CPU, Memory, Network, "::", Temperature,  *)
(* "::", the Wifi block and "::" exactly when this tick's Wifi object is   *)
(* present, the Battery block and "::" exactly when this tick's Battery    *)
(* object is present, a space and Datetime; presence is that of this       *)
(* tick's readings, so in every past tick the blocks written are those of  *)
(* the devices available in that tick.                                     *)
C2_Composition ==
  /\ \A k \in 1..Len(hist) : hist[k].names = ExpectedNames(hist[k].wifi, hist[k].bat)
  /\ Composed =>
       /\ Len(hist) = tick
       /\ w.present = WifiAvailable(env)
       /\ b.present = BatAvailable(env)
       /\ [k \in 1..Len(out) |-> out[k].m] = ExpectedNames(w.present, b.present)
       /\ ss = Flatten([k \in 1..Len(out) |-> Written(out[k])])
       /\ \A k \in 1..Len(out) :
            /\ out[k].m = "Separator" => out[k].color = NORMAL /\ out[k].text = <<58, 58>>
            /\ out[k].m = "char" => out[k].text = <<32>>
            /\ out[k].m = "Wifi" => out[k].text = WifiText(w)
            /\ out[k].m = "Battery" => out[k].text = BatteryText(b)
            /\ out[k].m = "Datetime" => out[k].text = DatetimeText(env.tm)
            /\ out[k].m = "Net" => out[k].text = netText
            /\ out[k].m = "Cpuinfo" => out[k].text = cpu.text

C2_Witness ==
  /\ Composed
  /\ \E k \in 1..(Len(hist) - 1) :
       /\ ~hist[k].wifi /\ hist[k + 1].wifi
       /\ hist[k].bat /\ ~hist[k + 1].bat
       /\ "Wifi" \in {hist[k + 1].names[j] : j \in 1..Len(hist[k + 1].names)}
       /\ "Battery" \in {hist[k].names[j] : j \in 1..Len(hist[k].names)}

(* C17: converting a metric to its text reads only what its construction   *)
(* sampled and changes nothing of the metric: writing the Network metric   *)
(* to the stream takes no new sample and leaves its ring buffer and its    *)
(* index as they were.                                                     *)
C17_RenderPure == [][pc = "net" => n' = n]_vars

(* C18: the loop has no exit of its own: it is left only by a fault while  *)
(* sampling.  Every other iteration samples and composes once, stores the  *)
(* composed line as the title, flushes, and then sleeps 5 s, in this       *)
(* order and once each; the first iteration is not preceded by a sleep,    *)
(* and a stored title is always flushed before the sleep begins.           *)
C18_LoopOrder ==
  /\ [](/\ pc \in {"loop", "store", "sync", "sleep", "dead"}
        /\ pc = "dead" => w.fault
        /\ Len(hist) = tick
        /\ env.now = EnvBoot.now + 5000 * (IF Composed THEN tick - 1 ELSE tick)
        /\ pc = "sync" => ~synced /\ title = CStr(ss)
        /\ pc = "sleep" => synced /\ title = CStr(ss)
        /\ pc = "loop" => synced)
  /\ [][ /\ pc = "loop" => \/ (pc' = "store" /\ tick' = tick + 1 /\ title' = title)
                            \/ pc' = "dead"
         /\ pc = "store" => (pc' = "sync" /\ tick' = tick /\ ss' = ss)
         /\ pc = "sync" => (pc' = "sleep" /\ tick' = tick /\ title' = title
                              /\ env' = env)
         /\ pc = "sleep" => (pc' = "loop" /\ tick' = tick /\ title' = title
                               /\ synced' = synced)
         /\ pc # "dead" ]_vars

(* A second iteration has begun: a title is stored and flushed, and one    *)
(* sleep of 5 s has passed                                                 *)
C18_Witness ==
  /\ pc = "sleep"
  /\ tick = 2
  /\ synced
  /\ title = CStr(ss)
  /\ title # <<>>
  /\ env.now = EnvBoot.now + 5000

(* C20: from the second tick on, the baseline the CPU percentages of a     *)
(* tick are computed against is the sample of the tick before: the         *)
(* statement ss << Cpuinfo() ends by copying its sample into the baseline, *)
(* and no other step of the loop writes the baseline.                      *)
C20_Baseline ==
  [][ /\ (cpu.n >= 1 /\ cpu'.n = cpu.n + 1) =>
           /\ cpu'.base.nelts = cpu.base.nelts
           /\ cpu'.base.total_last = cpu.cur.total_cur
           /\ cpu'.base.user_last = cpu.cur.user_cur
           /\ cpu'.base.sys_last = cpu.cur.sys_cur
           /\ cpu'.base.io_last = cpu.cur.io_cur
      /\ cpu'.n # cpu.n =>
           /\ pc = "loop"
           /\ cpu'.n = tick'
           /\ cpuStatic'.total_last = cpu'.cur.total_cur
           /\ cpuStatic'.user_last = cpu'.cur.user_cur
           /\ cpuStatic'.sys_last = cpu'.cur.sys_cur
           /\ cpuStatic'.io_last = cpu'.cur.io_cur
      /\ cpu'.n = cpu.n => (cpuStatic' = cpuStatic /\ tick' = tick) ]_vars

(* The second tick has been composed: its baseline is the sample taken at  *)
(* boot, in the first tick, and its own sample is later                    *)
C20_Witness ==
  /\ pc = "store"
  /\ tick = 2
  /\ cpu.n = 2
  /\ cpu.base.total_last = CpuinfoCtor(EnvBoot.stat, NCpu + 1).total_cur
  /\ \A i \in 0..NCpu : cpu.cur.total_cur[i] > cpu.base.total_last[i]
  /\ cpuStatic.total_last = cpu.cur.total_cur

(* C14: when /run/wpa_supplicant does not exist, or holds no entry that    *)
(* opens as a control socket, Wifi is constructed with present false, the  *)
(* tick completes and its line holds neither the Wifi block nor its        *)
(* separator.                                                              *)
C14_WifiAbsent ==
  (~WifiAvailable(env) /\ pc # "loop") =>
    /\ Composed
    /\ ~w.present
    /\ [k \in 1..Len(out) |-> out[k].m] = ExpectedNames(FALSE, b.present)

-----------------------------------------------------------------------------
(* The readings the specification calls required, /proc/loadavg and        *)
(* /proc/meminfo, when the files fail: Load() and Meminfo() constructed,   *)
(* written and pushed to the display once per tick.  env.files tells       *)
(* whether each file opens and how many numbers /proc/loadavg yields.      *)

(* An uninitialised double of Load, in hundredths; an uninitialised size_t *)
(* of Meminfo                                                              *)
UninitLoad == {0, 31415}
UninitSize == {0, 1}

(* Load::Load() on a file that may not open or may hold fewer than three   *)
(* numbers: operator>> stores nothing once the stream has failed.          *)
LoadRead(loadavg, files, un) ==
  LET got == IF files.loadavg THEN files.loadnums ELSE 0
  IN [one |-> IF got >= 1 THEN loadavg.one ELSE un,
      five |-> IF got >= 2 THEN loadavg.five ELSE un,
      fifteen |-> IF got >= 3 THEN loadavg.fifteen ELSE un]

(* ss << std::setprecision(2) << std::fixed << double, for hundredths >= 0 *)
Fixed2(h) == Dec(h \div 100) \o <<46>> \o Dec2(h % 100)

(* Load::operator std::string() *)
LoadText(ld) == Fixed2(ld.one) \o <<32>> \o Fixed2(ld.five) \o <<32>> \o Fixed2(ld.fifteen)

(* What /proc/loadavg and /proc/meminfo can be in a tick: sound; loadavg   *)
(* missing; loadavg cut after its first number; meminfo missing; meminfo   *)
(* without its Buffers line                                                *)
ReqFiles ==
  {[loadavg |-> TRUE, loadnums |-> 3, meminfo |-> TRUE],
   [loadavg |-> FALSE, loadnums |-> 0, meminfo |-> TRUE],
   [loadavg |-> TRUE, loadnums |-> 1, meminfo |-> TRUE],
   [loadavg |-> TRUE, loadnums |-> 3, meminfo |-> FALSE]}

ReqMeminfos ==
  {MeminfoLines(8000, 2000, 500, 3000),
   SelectSeq(MeminfoLines(8000, 2000, 500, 3000), LAMBDA l : l.k # "Buffers")}

InitRequired ==
  /\ pc = "rsample"
  /\ \E f \in ReqFiles, lines \in ReqMeminfos, one \in {50, 250} :
       env = [EnvBoot EXCEPT !.files = f, !.meminfo = lines, !.loadavg.one = one]
  /\ Fresh

(* ss << Load() << Separator() << Meminfo() << Separator().  On a          *)
(* /proc/meminfo that did not open, eof() is never true and getline reads  *)
(* nothing: the loop of Meminfo::Meminfo() does not end.                   *)
ReqSample ==
  /\ pc = "rsample"
  /\ tick < MaxReqTicks
  /\ \E ul \in Indeterminate(~env.files.loadavg \/ env.files.loadnums < 3, UninitLoad),
        um \in Indeterminate(~MeminfoComplete(env.meminfo), UninitSize),
        nan \in NanTexts :
       LET ld == LoadRead(env.loadavg, env.files, ul)
           m == MeminfoCtor(env.meminfo, um)
           calls == <<Call("Load", LoadColor(ld, env.ncpu), LoadText(ld)),
                      Call("Separator", SeparatorColor, SeparatorText),
                      Call("Meminfo", MeminfoColor(m), MeminfoText(m, nan)),
                      Call("Separator", SeparatorColor, SeparatorText)>>
       IN /\ load' = [n |-> 1, obj |-> ld]
          /\ IF env.files.meminfo
               THEN /\ mem' = [n |-> 1, obj |-> m]
                    /\ out' = calls
                    /\ ss' = StreamOf(calls)
                    /\ tick' = tick + 1
                    /\ pc' = "rstore"
               ELSE /\ pc' = "spin"
                    /\ UNCHANGED <<mem, out, ss, tick>>
  /\ UNCHANGED <<env, title, synced, cpuStatic, cpu, n, netText, b, w, temp, hist>>

(* XStoreName; XSync *)
ReqStore ==
  /\ pc = "rstore"
  /\ title' = CStr(ss)
  /\ synced' = TRUE
  /\ hist' = Append(hist, [files |-> env.files, lines |-> Len(env.meminfo)])
  /\ pc' = "rsleep"
  /\ UNCHANGED <<tick, env, ss, out, cpuStatic, cpu, n, netText, b, w, mem, temp, load>>

(* sleep(5): the files and the load change *)
ReqSleep ==
  /\ pc = "rsleep"
  /\ \E f \in ReqFiles, lines \in ReqMeminfos, one \in {50, 250} :
       env' = [env EXCEPT !.files = f, !.meminfo = lines, !.loadavg.one = one]
  /\ pc' = "rsample"
  /\ UNCHANGED <<tick, ss, out, title, synced, cpuStatic, cpu, n, netText, b, w,
                 mem, temp, load, hist>>

SpecRequired == InitRequired /\ [][ReqSample \/ ReqStore \/ ReqSleep]_vars

(* A tick's required readings fail: a file does not open, /proc/loadavg    *)
(* yields fewer than 3 numbers, or /proc/meminfo lacks one of its 4 lines  *)
ReqFailed(f, nlines) ==
  ~f.loadavg \/ f.loadnums < 3 \/ ~f.meminfo \/ nlines < Len(MeminfoLines(0, 0, 0, 0))

(* C12: in a tick whose /proc/loadavg or /proc/meminfo cannot be opened or *)
(* is incomplete the process has terminated with a non-zero status once    *)
(* the readings were taken, and no line of such a tick was pushed to the   *)
(* display.                                                                *)
C12_FatalRead ==
  /\ ReqFailed(env.files, Len(env.meminfo)) => pc \in {"rsample", "exited"}
  /\ \A k \in 1..Len(hist) : ~ReqFailed(hist[k].files, hist[k].lines)

-----------------------------------------------------------------------------
(* Temp on its own: one construction, colour and text per state of the two *)
(* thermal zone files.                                                     *)

(* What double ti holds when f >> ti stored nothing: 0, or what the stack  *)
(* slot held before (such as the reading of the other zone)                *)
UninitMilli == {0, 52000}

(* A zone file: absent, or holding millidegrees *)
ZoneReadings ==
  {[ok |-> FALSE, v |-> 0]} \cup {[ok |-> TRUE, v |-> 1000 * c] : c \in 40..MaxTempC}

InitTemp ==
  /\ pc = "temp"
  /\ \E z0 \in ZoneReadings, z1 \in ZoneReadings :
       env = [EnvBoot EXCEPT !.thermal = <<z0, z1>>]
  /\ Fresh

(* ss << Temp() *)
TempSample ==
  /\ pc = "temp"
  /\ \E u0 \in Indeterminate(~env.thermal[1].ok, UninitMilli),
        u1 \in Indeterminate(~env.thermal[2].ok, UninitMilli),
        nan \in NanTexts :
       LET tp == TempCtor(env.thermal, <<u0, u1>>)
       IN /\ temp' = tp
          /\ out' = <<Call("Temp", TempColor(tp), TempText(tp, nan))>>
          /\ ss' = Emit(TempColor(tp), TempText(tp, nan))
  /\ pc' = "tdone"
  /\ UNCHANGED <<tick, env, title, synced, cpuStatic, cpu, n, netText, b, w, mem,
                 load, hist>>

SpecTemp == InitTemp /\ [][TempSample]_vars

(* C13: a thermal zone whose file is absent adds exactly 0, so the         *)
(* temperature is (reading of the present zone)/2000, and 0 when both are  *)
(* absent; the construction completes.                                     *)
C13_AbsentZoneZero ==
  pc = "tdone" =>
    temp.sum = (IF env.thermal[1].ok THEN env.thermal[1].v ELSE 0)
                 + (IF env.thermal[2].ok THEN env.thermal[2].v ELSE 0)

-----------------------------------------------------------------------------
(* Wifi on its own: one construction, colour and text per STATUS response  *)
(* of a control socket that opens.                                         *)

TxtASSOCIATING == <<65, 83, 83, 79, 67, 73, 65, 84, 73, 78, 71>>
TxtASSOCIATED == <<65, 83, 83, 79, 67, 73, 65, 84, 69, 68>>
Txt4WAY_HANDSHAKE == <<52, 87, 65, 89, 95, 72, 65, 78, 68, 83, 72, 65, 75, 69>>
TxtGROUP_HANDSHAKE == <<71, 82, 79, 85, 80, 95, 72, 65, 78, 68, 83, 72, 65, 75, 69>>
TxtAUTHENTICATING == <<65, 85, 84, 72, 69, 78, 84, 73, 67, 65, 84, 73, 78, 71>>
TxtGuest == <<103, 117, 101, 115, 116>>

(* The wpa_state values wpa_supplicant reports *)
WpaStateTexts ==
  {TxtCOMPLETED, TxtDISCONNECTED, TxtINACTIVE, TxtSCANNING, TxtINTERFACE_DISABLED,
   TxtASSOCIATING, TxtASSOCIATED, Txt4WAY_HANDSHAKE, TxtGROUP_HANDSHAKE,
   TxtAUTHENTICATING}

(* A STATUS response: with a network selected the lines bssid, ssid, id    *)
(* precede wpa_state; without one the response starts at wpa_state.        *)
StatusResponses ==
  {<<[k |-> "bssid", v |-> <<48>>], [k |-> "ssid", v |-> ssid], [k |-> "id", v |-> <<48>>],
     [k |-> "key_mgmt", v |-> <<48>>], [k |-> "wpa_state", v |-> st],
     [k |-> "address", v |-> <<48>>]>> :
     ssid \in {<<>>, TxtHome, TxtGuest}, st \in WpaStateTexts}
  \cup {<<[k |-> "wpa_state", v |-> st], [k |-> "address", v |-> <<48>>]>> :
          st \in WpaStateTexts}

InitWifi ==
  /\ pc = "wifi"
  /\ \E r \in StatusResponses, first \in BOOLEAN :
       env = [EnvBoot EXCEPT
                !.wifi = [dir |-> TRUE,
                          entries |-> <<DotEntry("."), DotEntry("..")>>
                            \o (IF first THEN <<>>
                                ELSE <<[name |-> "p2p-dev-wlp3s0", ok |-> FALSE,
                                        status |-> <<>>]>>)
                            \o <<[name |-> "wlp3s0", ok |-> TRUE, status |-> r]>>]]
  /\ Fresh

(* Wifi w; if (w.present()) ss << w *)
WifiSample ==
  /\ pc = "wifi"
  /\ \E atNull \in {"segv", "null"} :
       LET wf == WifiCtor(env.wifi, atNull)
       IN /\ w' = wf
          /\ IF wf.present
               THEN /\ out' = <<Call("Wifi", WifiColor(wf), WifiText(wf))>>
                    /\ ss' = Emit(WifiColor(wf), WifiText(wf))
               ELSE UNCHANGED <<out, ss>>
  /\ pc' = "wdone"
  /\ UNCHANGED <<tick, env, title, synced, cpuStatic, cpu, n, netText, b, mem, temp,
                 load, hist>>

(* An interface going down or coming up between two constructions *)
WifiToggle ==
  /\ pc = "wdone"
  /\ tick < MaxWifiToggles
  /\ \E st \in {TxtINTERFACE_DISABLED, TxtSCANNING} :
       env' = [env EXCEPT !.wifi.entries =
                 [j \in 1..Len(@) |->
                    IF @[j].ok
                      THEN [@[j] EXCEPT !.status =
                              <<[k |-> "wpa_state", v |-> st],
                                [k |-> "address", v |-> <<48>>]>>]
                      ELSE @[j]]]
  /\ tick' = tick + 1
  /\ pc' = "wifi"
  /\ UNCHANGED <<ss, out, title, synced, cpuStatic, cpu, n, netText, b, w, mem, temp,
                 load, hist>>

SpecWifi == InitWifi /\ [][WifiSample \/ WifiToggle]_vars

(* The value of the first line of a response with key key *)
ValueOf(lines, key) ==
  lines[CHOOSE j \in 1..Len(lines) :
          lines[j].k = key /\ \A i \in 1..(j - 1) : lines[i].k # key].v

(* The response of the socket that opens *)
EnvStatus ==
  env.wifi.entries[CHOOSE j \in 1..Len(env.wifi.entries) : env.wifi.entries[j].ok].status

EnvSsid ==
  IF \E j \in 1..Len(EnvStatus) : EnvStatus[j].k = "ssid"
    THEN ValueOf(EnvStatus, "ssid") ELSE <<>>

(* C15: for a present Wifi, COMPLETED gives Connected, DISCONNECTED and    *)
(* INACTIVE give Disconnected, SCANNING gives Searching,                   *)
(* INTERFACE_DISABLED gives Off and any other text Connecting; the colour  *)
(* is Red for Off, Orange for Disconnected, Yellow for Searching, Green    *)
(* for Connecting, Blue for Connected; the text is "wifi off" when Off,    *)
(* else "???" when the ssid is empty, else the ssid.                       *)
C15_WifiMapping ==
  (pc = "wdone" /\ w.present) =>
    LET st == ValueOf(EnvStatus, "wpa_state")
    IN /\ st = TxtCOMPLETED => w.state = CONNECTED
       /\ st \in {TxtDISCONNECTED, TxtINACTIVE} => w.state = DISCONNECTED
       /\ st = TxtSCANNING => w.state = SEARCHING
       /\ st = TxtINTERFACE_DISABLED => w.state = WIFI_OFF
       /\ st \notin {TxtCOMPLETED, TxtDISCONNECTED, TxtINACTIVE, TxtSCANNING,
                     TxtINTERFACE_DISABLED} => w.state = CONNECTING
       /\ w.state = WIFI_OFF => out[1].color = RED
       /\ w.state = DISCONNECTED => out[1].color = ORANGE
       /\ w.state = SEARCHING => out[1].color = YELLOW
       /\ w.state = CONNECTING => out[1].color = GREEN
       /\ w.state = CONNECTED => out[1].color = BLUE
       /\ w.ssid = EnvSsid
       /\ out[1].text = (IF w.state = WIFI_OFF
                           THEN <<119, 105, 102, 105, 32, 111, 102, 102>>
                         ELSE IF EnvSsid = <<>> THEN <<63, 63, 63>>
                         ELSE EnvSsid)

C15_Witness ==
  /\ pc = "wdone" /\ w.present
  /\ ValueOf(EnvStatus, "wpa_state") = TxtINACTIVE
  /\ w.state = DISCONNECTED
  /\ out = <<[m |-> "Wifi", color |-> ORANGE, text |-> TxtHome]>>
  /\ ss = <<ORANGE>> \o TxtHome \o <<1>>

-----------------------------------------------------------------------------
(* Bar on its own: ss << Bar(x, y, w, h, skip, filled, c) for fields       *)
(* across 0..254 and every colour.                                         *)

BarFields == {0, 1, 3, 10, 41, 100, 127, 128, 254}
BarRows == {0, 2, 12, 254}

InitBar == pc = "bar" /\ env = EnvBoot /\ Fresh

BarRender ==
  /\ pc = "bar"
  /\ \E x \in BarFields, y \in BarRows, wd \in BarFields, h \in BarRows,
        skip \in {0, 41, 101, 254}, filled \in BOOLEAN, c \in Colors :
       /\ hist' = <<[x |-> x, y |-> y, w |-> wd, h |-> h, skip |-> skip,
                     filled |-> filled, c |-> c]>>
       /\ out' = <<Call("Bar", NORMAL, BarText(x, y, wd, h, skip, filled, c))>>
       /\ ss' = Emit(NORMAL, BarText(x, y, wd, h, skip, filled, c))
  /\ pc' = "bdone"
  /\ UNCHANGED <<tick, env, title, synced, cpuStatic, cpu, n, netText, b, w, mem,
                 temp, load>>

SpecBar == InitBar /\ [][BarRender]_vars

(* Reading a glyph back: the low six bits of byte 0 are the colour, bit 6  *)
(* is filled, and each other byte is its field plus 1                      *)
BarDecode(t) ==
  [x |-> t[2] - 1, y |-> t[3] - 1, w |-> t[4] - 1, h |-> t[5] - 1, skip |-> t[6] - 1,
   filled |-> (t[1] \div 64) % 2 = 1, c |-> t[1] % 64]

(* C16: a Bar of fields in 0..254 and colour 1..8 renders as 6 bytes, the  *)
(* first the colour with bit 7 set and bit 6 set when filled, the others   *)
(* x+1, y+1, w+1, h+1, skip+1; decoding them gives back the fields.        *)
C16_BarRoundTrip ==
  pc = "bdone" =>
    LET a == hist[1]
        t == out[1].text
    IN /\ Len(t) = 6
       /\ t[1] = a.c + 128 + (IF a.filled THEN 64 ELSE 0)
       /\ t[1] \div 128 = 1
       /\ <<t[2], t[3], t[4], t[5], t[6]>> = <<a.x + 1, a.y + 1, a.w + 1, a.h + 1, a.skip + 1>>
       /\ BarDecode(t) = a
       /\ ss = t

C16_Witness ==
  /\ pc = "bdone"
  /\ hist[1] = [x |-> 3, y |-> 0, w |-> 10, h |-> 2, skip |-> 0, filled |-> TRUE,
                c |-> GREEN]
  /\ out[1].text = <<200, 4, 1, 11, 3, 1>>

-----------------------------------------------------------------------------
(* The history part of the Network block, read back from the text written  *)
(* by a tick of SpecNet.                                                   *)

(* The slots the history loop visits: j = 3 (i - N + 3 once the buffer has *)
(* wrapped) up to i - 1; those with a delta of at least one second         *)
NetSlots ==
  {j \in (IF n.i >= NetN THEN n.i - NetN + 3 ELSE 3)..(n.i - 1) :
     NetSecs(n, j % NetN, (j - 1) % NetN) # 0}

(* The k-th of these slots, counted from the newest or from the oldest *)
NetSlotAt(k, newestFirst) ==
  CHOOSE j \in NetSlots :
    Cardinality({x \in NetSlots : IF newestFirst THEN x > j ELSE x < j}) = k - 1

(* The heights of the rx and the tx bar of slot j *)
NetHeights(j) ==
  LET cur == j % NetN
      prev == (j - 1) % NetN
      secs == NetSecs(n, cur, prev)
  IN [rh |-> NetRh(n.rx[cur] - n.rx[prev], secs),
      th |-> NetTh(n.tx[cur] - n.tx[prev], secs)]

(* The text ends with one pair of glyphs per slot of NetSlots, in the      *)
(* given order, and has no glyph before them                               *)
NetHistoryIs(newestFirst) ==
  n.i >= 3 =>
    LET K == Cardinality(NetSlots)
        rest == Len(netText) - 12 * K
    IN /\ rest >= 0
       /\ \A p \in 1..rest : netText[p] < 128
       /\ \A k \in 1..K :
            LET at == rest + 12 * (k - 1)
                rxb == BarDecode(SubSeq(netText, at + 1, at + 6))
                txb == BarDecode(SubSeq(netText, at + 7, at + 12))
                hs == NetHeights(NetSlotAt(k, newestFirst))
            IN /\ netText[at + 1] >= 128 /\ netText[at + 7] >= 128
               /\ rxb.c = GREEN /\ rxb.h = hs.rh /\ rxb.y = 8 - hs.rh
               /\ rxb.skip = 0
               /\ txb.c = RED /\ txb.h = hs.th /\ txb.y = 9 /\ txb.skip = 1

(* C19 as stated: from the third sample on, the history holds one rx bar   *)
(* followed by one tx bar per visited slot with a delta of at least one    *)
(* second, the pair of the newest sample first and that of the oldest      *)
(* last; slots with a zero-second delta write nothing.                     *)
C19_NewestFirst == NetHistoryIs(TRUE)

(* C19, amended: the same pairs, but in the order the samples were taken:  *)
(* the pair of the oldest visited slot first, that of the newest last.     *)
C19_OldestFirst == NetHistoryIs(FALSE)

(* Five samples, so that slots 3 and 4 are visited; both deltas last a     *)
(* second or more and their rx bars differ in height, while an earlier     *)
(* delta lasts less than a second                                          *)
C19_Witness ==
  /\ n.i = 5
  /\ NetSlots = {3, 4}
  /\ NetHeights(3).rh # NetHeights(4).rh
  /\ NetSecs(n, 2, 1) = 0
  /\ Len(netText) > 24

-----------------------------------------------------------------------------
(* The ring buffer of Net over more ticks than it has slots: n.next() once *)
(* per tick, 5 s apart; in a few ticks /proc/net/dev lacks the interface   *)
(* or shows a packet count beyond the range of an int.  The text is left   *)
(* aside here: after such a tick the deltas wrap around in size_t.         *)

NetReadings == {"ok", "absent", "wide"}

InitRing == pc = "ring" /\ env = EnvBoot /\ Fresh

(* next(), as called at the start of Net::operator std::string() *)
NetRingTick ==
  /\ pc = "ring"
  /\ tick < MaxRingTicks
  /\ \E kind \in NetReadings :
       LET e == [env EXCEPT !.netdev.rx = @ + 51200, !.netdev.tx = @ + 2048,
                            !.netdev.ok = kind # "absent",
                            !.netdev.fits = kind # "wide",
                            !.now = @ + 5000]
       IN /\ kind # "ok" =>
               Cardinality({k \in 1..Len(hist) : hist[k].kind # "ok"}) < MaxNetFaults
          /\ env' = e
          /\ n' = NetNext(n, e.netdev, e.now)
          /\ hist' = Append(hist, [rx |-> e.netdev.rx, tx |-> e.netdev.tx,
                                   t |-> e.now, kind |-> kind])
  /\ tick' = tick + 1
  /\ UNCHANGED <<pc, ss, out, title, synced, cpuStatic, cpu, netText, b, w, mem,
                 temp, load>>

SpecRing == InitRing /\ [][NetRingTick]_vars

(* The pairs <<j, j - 1>> of sample numbers whose delta the text of tick   *)
(* k = n.i is computed from: the current rate and the history loop        *)
NetPairs ==
  (IF n.i >= 3 THEN {<<n.i - 1, n.i - 2>>} ELSE {})
    \cup {<<j, j - 1>> : j \in (IF n.i >= NetN THEN n.i - NetN + 3 ELSE 3)..(n.i - 1)}

(* The samples still in the buffer after k = n.i ticks *)
NetRetained == Max(0, n.i - NetN)..(n.i - 1)

(* One slot is written per tick, slot j % 60 has the clock reading of      *)
(* sample j, and each delta pairs two retained samples in distinct slots   *)
NetRingTimes ==
  /\ n.i = tick
  /\ Len(hist) = tick
  /\ \A j \in NetRetained : n.t[j % NetN] = hist[j + 1].t
  /\ \A p \in NetPairs :
       /\ p[1] \in NetRetained /\ p[2] \in NetRetained
       /\ p[1] % NetN # p[2] % NetN

(* C21: after k ticks i = k, slot j % 60 holds sample j (its byte counters *)
(* and its time) for every retained j, and every delta of the text pairs   *)
(* two consecutive samples that are both still in the buffer, also after   *)
(* the buffer has wrapped.                                                 *)
C21_RingSamples ==
  pc = "ring" =>
    /\ NetRingTimes
    /\ \A j \in NetRetained :
         /\ n.rx[j % NetN] = hist[j + 1].rx
         /\ n.tx[j % NetN] = hist[j + 1].tx

-----------------------------------------------------------------------------
(* WpaCtrl::status on responses whose lines come in any order.             *)

(* The orders of four lines *)
StatusOrders == {p \in [1..4 -> 1..4] : \A i, j \in 1..4 : p[i] = p[j] => i = j}

InitStatus ==
  /\ pc = "status"
  /\ \E ssid \in {TxtHome, TxtGuest}, st \in WpaStateTexts, p \in StatusOrders :
       LET ls == <<[k |-> "ssid", v |-> ssid], [k |-> "wpa_state", v |-> st],
                   [k |-> "id", v |-> <<48>>], [k |-> "address", v |-> <<48>>]>>
       IN env = [EnvBoot EXCEPT
                   !.wifi = [dir |-> TRUE,
                             entries |-> <<DotEntry("."), DotEntry(".."),
                                           [name |-> "wlp3s0", ok |-> TRUE,
                                            status |-> [i \in 1..4 |-> ls[p[i]]]]>>]]
  /\ Fresh

(* Wifi w: c.status(_ssid, _state) on the socket that opens *)
StatusRequest ==
  /\ pc = "status"
  /\ w' = WifiCtor(env.wifi, "null")
  /\ pc' = "sdone"
  /\ UNCHANGED <<tick, env, ss, out, title, synced, cpuStatic, cpu, n, netText, b,
                 mem, temp, load, hist>>

SpecStatus == InitStatus /\ [][StatusRequest]_vars

(* C22: for a response with one ssid line and one wpa_state line, in any   *)
(* order and at any position, status sets the ssid to the value of the     *)
(* ssid line and the state to the mapping of the wpa_state value.          *)
C22_StatusParsed ==
  pc = "sdone" =>
    /\ w.present
    /\ w.ssid = ValueOf(EnvStatus, "ssid")
    /\ w.state = WpaState(ValueOf(EnvStatus, "wpa_state"))

-----------------------------------------------------------------------------
(* The bars of the Memory block, read back from the text of SpecMem.       *)

(* The k-th of the four glyphs that end Meminfo's text *)
MemBar(k) ==
  BarDecode(SubSeq(mem.text, Len(mem.text) - 24 + 6 * (k - 1) + 1,
                   Len(mem.text) - 24 + 6 * k))

(* C24: for a sample with total > 0 and free + buffers + cached <= total   *)
(* the three filled bars (used, buffers, cached) lie side by side: the     *)
(* first starts at x = 0, each next one where the one before ends, and     *)
(* their widths sum to at most 100, the width of the outline that follows. *)
C24_MemBars ==
  (/\ mem.n >= 1
   /\ mem.obj.total > 0
   /\ mem.obj.mfree >= 0 /\ mem.obj.buff >= 0 /\ mem.obj.cach >= 0
   /\ mem.obj.mfree + mem.obj.buff + mem.obj.cach <= mem.obj.total) =>
    /\ Len(mem.text) >= 24
    /\ \A k \in 1..3 : MemBar(k).filled /\ MemBar(k).w >= 0
    /\ MemBar(1).x = 0
    /\ MemBar(2).x = MemBar(1).x + MemBar(1).w
    /\ MemBar(3).x = MemBar(2).x + MemBar(2).w
    /\ MemBar(3).x + MemBar(3).w <= 100
    /\ MemBar(1).w + MemBar(2).w + MemBar(3).w <= 100
    /\ ~MemBar(4).filled /\ MemBar(4).x = 0 /\ MemBar(4).w = 100

(* A sample with used, buffers and cached all above zero and some memory   *)
(* free: three bars of positive width that end before x = 100              *)
C24_Witness ==
  /\ mem.n >= 1
  /\ mem.obj.total > 0
  /\ mem.obj.mfree > 0
  /\ mem.obj.mfree + mem.obj.buff + mem.obj.cach < mem.obj.total
  /\ \A k \in 1..3 : MemBar(k).w > 0
  /\ MemBar(2).w # MemBar(1).w
  /\ MemBar(3).x + MemBar(3).w < 100

-----------------------------------------------------------------------------
(* The loop of main() with a clock that may be set back while the process  *)
(* sleeps, long enough for the Network block to have history bars; no      *)
(* battery and no wifi.                                                    *)

(* What the clock shows after a sleep of 5 s, in ms after the reading      *)
(* before it: set back by 6 s during the sleep, or left alone              *)
ClockSteps == {-1000, 5000}

ClockCompose == ComposeUpTo(MaxClockTicks)

(* sleep(5) *)
ClockSleep ==
  /\ pc = "sleep"
  /\ \E dt \in ClockSteps :
       env' = [env EXCEPT !.stat = StatAdvance(env.stat,
                                               [i \in 1..env.ncpu |-> MainCpuDelta]),
                          !.netdev.rx = @ + 51200, !.netdev.tx = @ + 2048,
                          !.now = @ + dt]
  /\ pc' = "loop"
  /\ UNCHANGED <<tick, ss, out, title, synced, cpuStatic, cpu, n, netText, b, w,
                 mem, temp, load, hist>>

SpecClock == Init /\ [][ClockCompose \/ StoreName \/ Sync \/ ClockSleep]_vars

(* C25: the composed line has no byte 0, so that the title stored is the   *)
(* whole line, up to and including the Datetime.                           *)
C25_NoZeroByte ==
  /\ Composed => \A k \in 1..Len(ss) : ss[k] # 0
  /\ pc \in {"sync", "sleep"} => title = ss

====
